---- MODULE Spec2Model ----
(***************************************************************************)
(* State-machine model of the DIMO cloudevent event repository             *)
(* (pkg/clickhouse/eventrepo) together with the header model, the row      *)
(* projection and the object-key derivation it is built on.                *)
(*                                                                         *)
(* Conventions                                                             *)
(*   - a Go pointer is a sequence: <<>> is nil, <<v>> points to v;         *)
(*   - a time.Time is the number of microseconds since the zero instant    *)
(*     (0001-01-01T00:00:00Z), always in UTC;                              *)
(*   - a byte string (blob, json.RawMessage, String column) is a record    *)
(*     telling whether it is empty, not JSON at all, or the text of a JSON *)
(*     value; JSON texts are kept as the value they denote;                *)
(*   - an error is the chain of messages and sentinels it wraps, outermost *)
(*     first; <<>> is the nil error.                                       *)
(***************************************************************************)
EXTENDS Integers, Sequences, FiniteSets, TLC

VARIABLES
  objects,   \* object store: object key -> bytes (DOMAIN = keys that exist)
  index,     \* cloud_event table: the rows in insertion order
  op,        \* name of the repository operation that ran last
  arg,       \* its arguments
  calls,     \* the collaborator calls it issued, in order
  ret,       \* what it returned
  service,   \* the fields of the Service the operations run on
  threads,   \* thread -> the local variables of the call it is in
  db         \* the index database: migrations applied, tables and engines

vars == <<objects, index, op, arg, calls, ret, service, threads, db>>

----------------------------------------------------------------------------
(* Bounds of the model.                                                     *)

\* Longest list of index rows / keys handed to a list operation.
MaxIndexes == 3
\* Most rows the cloud_event table holds.
MaxRows == 2
\* Largest limit a query is given.
MaxLimit == 2
\* Most predicates set at once in one SearchOptions.
MaxPreds == 2

----------------------------------------------------------------------------
(* Generic helpers.                                                         *)

Nil == <<>>
Ptr(v) == <<v>>

Range(s) == {s[i] : i \in 1..Len(s)}

Min(a, b) == IF a < b THEN a ELSE b

\* All sequences over S of length at most n.
SeqsUpTo(S, n) == UNION {[1..k -> S] : k \in 0..n}

RECURSIVE Pad(_, _)
\* n in decimal, w digits wide, with leading zeros.
Pad(n, w) == IF w = 0 THEN "" ELSE Pad(n \div 10, w - 1) \o ToString(n % 10)

RECURSIVE TrimFrac(_, _)
\* The w-digit fraction n without its trailing zeros.
TrimFrac(n, w) == IF n % 10 = 0 THEN TrimFrac(n \div 10, w - 1) ELSE Pad(n, w)

----------------------------------------------------------------------------
(* JSON values, byte strings, Go values.                                    *)

JNull == [j |-> "null", s |-> "", n |-> 0, a |-> <<>>, o |-> <<>>]
JStr(s) == [JNull EXCEPT !.j = "str", !.s = s]
JNum(n) == [JNull EXCEPT !.j = "num", !.n = n]
\* A JSON string holding the RFC 3339 text of instant t.
JTime(t) == [JNull EXCEPT !.j = "time", !.n = t]
JArr(a) == [JNull EXCEPT !.j = "arr", !.a = a]
\* o: member name -> JSON value
JObj(o) == [JNull EXCEPT !.j = "obj", !.o = o]

NilBytes == [kind |-> "nil", tok |-> "", val |-> JNull]
\* Bytes that are not JSON; tok tells two such byte strings apart.
Junk(tok) == [kind |-> "junk", tok |-> tok, val |-> JNull]
\* The text of JSON value v.
Text(v) == [kind |-> "json", tok |-> "", val |-> v]

\* Values of Go type any, as they occur in Extras.
GNil == [g |-> "nil", s |-> "", n |-> 0, a |-> <<>>, m |-> <<>>]
GStr(s) == [GNil EXCEPT !.g = "string", !.s = s]
GInt(n) == [GNil EXCEPT !.g = "int", !.n = n]
GFloat(n) == [GNil EXCEPT !.g = "float64", !.n = n]
\* []any whose elements are Go values
GList(a) == [GNil EXCEPT !.g = "[]any", !.a = a]
\* []string
GStrings(a) == [GNil EXCEPT !.g = "[]string", !.a = a]
\* map[string]any whose values are Go values
GMap(m) == [GNil EXCEPT !.g = "map[string]any", !.m = m]

\* map[string]any: nil, or the mapping kv.
NilMap == [isNil |-> TRUE, kv |-> <<>>]
Map(kv) == [isNil |-> FALSE, kv |-> kv]

\* encoding/json: a scalar Go value as JSON.
ScalarToJSON(g) ==
  CASE g.g = "string" -> JStr(g.s)
    [] g.g \in {"int", "float64"} -> JNum(g.n)
    [] OTHER -> JNull

RECURSIVE MarshalAny(_)
\* encoding/json: json.Marshal of a value of type any; lists and maps are
\* encoded element by element.
MarshalAny(g) ==
  CASE g.g = "[]any" -> JArr([i \in 1..Len(g.a) |-> MarshalAny(g.a[i])])
    [] g.g = "[]string" -> JArr([i \in 1..Len(g.a) |-> JStr(g.a[i])])
    [] g.g = "map[string]any" -> JObj([k \in DOMAIN g.m |-> MarshalAny(g.m[k])])
    [] OTHER -> ScalarToJSON(g)

\* time.Time.Format(time.RFC3339) of a UTC time: whole seconds only.
FormatRFC3339(t) == "0001-01-01T00:00:" \o Pad((t \div 1000000) % 60, 2) \o "Z"

\* time.Time.Format(time.RFC3339Nano) of a UTC time (time.Time.MarshalJSON).
FormatRFC3339Nano(t) ==
  "0001-01-01T00:00:" \o Pad((t \div 1000000) % 60, 2)
    \o (IF t % 1000000 = 0 THEN "" ELSE "." \o TrimFrac(t % 1000000, 6)) \o "Z"

\* encoding/json: a scalar JSON value decoded into a value of type any.
ScalarToAny(v) ==
  CASE v.j = "str" -> GStr(v.s)
    [] v.j = "time" -> GStr(FormatRFC3339Nano(v.n))
    [] v.j = "num" -> GFloat(v.n)
    [] OTHER -> GNil

RECURSIVE UnmarshalAny(_)
\* encoding/json: json.Unmarshal into a value of type any; arrays and objects
\* are decoded element by element.
UnmarshalAny(v) ==
  IF v.j = "arr" THEN GList([i \in 1..Len(v.a) |-> UnmarshalAny(v.a[i])])
  ELSE IF v.j = "obj" THEN GMap([k \in DOMAIN v.o |-> UnmarshalAny(v.o[k])])
  ELSE ScalarToAny(v)

----------------------------------------------------------------------------
(* Event header (CloudEventHeader) and its identity key.                    *)

SpecVersion == "1.0"

\* cloudevent.CloudEventHeader{}: the zero header.
emptyHdr ==
  [ID |-> "", Source |-> "", Producer |-> "", SpecVersion |-> "", Subject |-> "",
   Time |-> 0, Type |-> "", DataContentType |-> "", DataSchema |-> "",
   DataVersion |-> "", Extras |-> NilMap]

\* The header the index rows are restored into: the fields of header h and
\* the two fields that have no column and no json name in h, Signature and
\* Tags.
HeaderWithNonColumnFields(h, signature, tags) ==
  [ID |-> h.ID, Source |-> h.Source, Producer |-> h.Producer,
   SpecVersion |-> h.SpecVersion, Subject |-> h.Subject, Time |-> h.Time,
   Type |-> h.Type, DataContentType |-> h.DataContentType,
   DataSchema |-> h.DataSchema, DataVersion |-> h.DataVersion,
   Signature |-> signature, Tags |-> tags, Extras |-> h.Extras]

\* CloudEventHeader.Key
Key(c) ==
  c.Subject \o ":" \o FormatRFC3339(c.Time) \o ":" \o c.Type \o ":" \o c.Source \o ":" \o c.ID

\* CloudEventHeader.Equals
Equals(c, other) == Key(c) = Key(other)

\* hexChars
hexChars ==
  <<"0", "1", "2", "3", "4", "5", "6", "7", "8", "9", "a", "b", "c", "d", "e", "f">>

\* xxhash.Sum64String(key) >> 60 for the keys of the model: entry d+1 holds the
\* keys whose 64-bit xxHash has d as its highest four bits.
Sum64StringTop4 ==
  <<
    { \* 0
      ":0001-01-01T00:00:00Z::s:s:i", ":0001-01-01T00:00:01Z:::", ":0001-01-01T00:00:01Z:::i",
      ":0001-01-01T00:00:01Z:t:s:j", ":0001-01-01T00:00:01Z:t:s:s:s:i",
      ":0001-01-01T00:00:02Z:::j", ":0001-01-01T00:00:02Z:t:s:i", ":0001-01-01T00:00:03Z:t:s:j",
      "sa:0001-01-01T00:00:00Z:t:s:", "sa:0001-01-01T00:00:01Z:::j",
      "sa:0001-01-01T00:00:01Z:t::i", "sa:0001-01-01T00:00:02Z:t:s:s:s:i",
      "sa:0001-01-01T00:00:03Z:::", "sa:0001-01-01T00:00:03Z::s:j", "sa:0001-01-01T00:00:03Z:t:s:",
      "sb:0001-01-01T00:00:00Z:t:s:s:i", "sb:0001-01-01T00:00:00Z:t:s:s:s:i",
      "sb:0001-01-01T00:00:01Z:::i", "sb:0001-01-01T00:00:01Z:t:s:s:s:i"
    },
    { \* 1
      ":0001-01-01T00:00:00Z:t:s::j", ":0001-01-01T00:00:00Z:t:s:s:j",
      ":0001-01-01T00:00:01Z::s:j", ":0001-01-01T00:00:02Z::s:", "sa:0001-01-01T00:00:00Z::s:i",
      "sa:0001-01-01T00:00:00Z:t::", "sa:0001-01-01T00:00:00Z:t:s:i",
      "sa:0001-01-01T00:00:00Z:t:s:s:j", "sa:0001-01-01T00:00:01Z:t::j",
      "sa:0001-01-01T00:00:01Z:t:s:", "sa:0001-01-01T00:00:02Z::s:j",
      "sa:0001-01-01T00:00:02Z::s:s:j", "sa:0001-01-01T00:00:02Z:t:s:s:j",
      "sa:0001-01-01T00:00:02Z:t:s:s:s:j", "sa:0001-01-01T00:00:03Z:t:s:s:s:i",
      "sb:0001-01-01T00:00:00Z:::", "sb:0001-01-01T00:00:00Z:t:s:s:j"
    },
    { \* 2
      ":0001-01-01T00:00:00Z:::j", ":0001-01-01T00:00:01Z:t::i", ":0001-01-01T00:00:03Z:::i",
      "sa:0001-01-01T00:00:00Z:t:s:j", "sa:0001-01-01T00:00:01Z::s:s:i",
      "sa:0001-01-01T00:00:02Z:t:s::i", "sa:0001-01-01T00:00:03Z:t:s::i",
      "sb:0001-01-01T00:00:00Z::s:i", "sb:0001-01-01T00:00:00Z::s:s:j",
      "sb:0001-01-01T00:00:00Z:t:s:s:", "sb:0001-01-01T00:00:02Z:::",
      "sb:0001-01-01T00:00:03Z::s:s:j", "sb:0001-01-01T00:00:03Z:t::j"
    },
    { \* 3
      ":0001-01-01T00:00:00Z::s:s:j", ":0001-01-01T00:00:00Z:t:s:i",
      ":0001-01-01T00:00:00Z:t:s:s:i", ":0001-01-01T00:00:01Z:::j", ":0001-01-01T00:00:01Z:t:s::",
      ":0001-01-01T00:00:01Z:t:s::i", ":0001-01-01T00:00:01Z:t:s:s:i", ":0001-01-01T00:00:02Z:::i",
      ":0001-01-01T00:00:02Z:t:s::", ":0001-01-01T00:00:03Z:t::j", ":0001-01-01T00:00:03Z:t:s:i",
      ":0001-01-01T00:00:03Z:t:s:s:i", "sa:0001-01-01T00:00:00Z:::",
      "sa:0001-01-01T00:00:02Z:t:s::j", "sa:0001-01-01T00:00:02Z:t:s:i",
      "sa:0001-01-01T00:00:03Z::s:s:i", "sa:0001-01-01T00:00:03Z::s:s:j",
      "sa:0001-01-01T00:00:03Z:t:s:s:", "sa:0001-01-01T00:00:03Z:t:s:s:s:j",
      "sb:0001-01-01T00:00:01Z::s:", "sb:0001-01-01T00:00:02Z::s:j",
      "sb:0001-01-01T00:00:03Z:t:s:s:j"
    },
    { \* 4
      ":0001-01-01T00:00:00Z::s:", ":0001-01-01T00:00:01Z::s:i", ":0001-01-01T00:00:02Z:t::j",
      ":0001-01-01T00:00:02Z:t:s:", ":0001-01-01T00:00:03Z::s:i", ":0001-01-01T00:00:03Z:t:s::i",
      "sa:0001-01-01T00:00:00Z:t:s:s:s:j", "sa:0001-01-01T00:00:02Z:t:s:s:",
      "sa:0001-01-01T00:00:03Z:::i", "sa:0001-01-01T00:00:03Z:t:s:j",
      "sb:0001-01-01T00:00:01Z:t:s:j", "sb:0001-01-01T00:00:01Z:t:s:s:i",
      "sb:0001-01-01T00:00:02Z:t:s:", "sb:0001-01-01T00:00:02Z:t:s::j",
      "sb:0001-01-01T00:00:03Z::s:j", "sb:0001-01-01T00:00:03Z:t:s::j"
    },
    { \* 5
      ":0001-01-01T00:00:00Z:t:s:s:s:i", ":0001-01-01T00:00:01Z::s:s:",
      ":0001-01-01T00:00:02Z::s:j", ":0001-01-01T00:00:03Z:t:s:s:s:i",
      "sa:0001-01-01T00:00:00Z::s:s:", "sa:0001-01-01T00:00:00Z:t:s:s:s:",
      "sa:0001-01-01T00:00:01Z:::", "sa:0001-01-01T00:00:01Z::s:s:j",
      "sa:0001-01-01T00:00:01Z:t:s:i", "sa:0001-01-01T00:00:01Z:t:s:s:",
      "sa:0001-01-01T00:00:01Z:t:s:s:s:j", "sa:0001-01-01T00:00:03Z::s:",
      "sb:0001-01-01T00:00:00Z:t:s::", "sb:0001-01-01T00:00:00Z:t:s:s:s:j",
      "sb:0001-01-01T00:00:01Z:::j", "sb:0001-01-01T00:00:01Z::s:j",
      "sb:0001-01-01T00:00:01Z::s:s:i", "sb:0001-01-01T00:00:01Z:t:s::",
      "sb:0001-01-01T00:00:01Z:t:s::j", "sb:0001-01-01T00:00:02Z:t:s:i",
      "sb:0001-01-01T00:00:02Z:t:s:s:", "sb:0001-01-01T00:00:03Z::s:s:i",
      "sb:0001-01-01T00:00:03Z:t::"
    },
    { \* 6
      ":0001-01-01T00:00:00Z:::i", ":0001-01-01T00:00:00Z:t:s:j", ":0001-01-01T00:00:00Z:t:s:s:",
      ":0001-01-01T00:00:01Z:t:s::j", ":0001-01-01T00:00:01Z:t:s:s:j", ":0001-01-01T00:00:03Z:::",
      ":0001-01-01T00:00:03Z::s:s:j", ":0001-01-01T00:00:03Z:t::", "sa:0001-01-01T00:00:02Z:t::i",
      "sa:0001-01-01T00:00:02Z:t:s:j", "sb:0001-01-01T00:00:00Z::s:s:",
      "sb:0001-01-01T00:00:01Z:t::", "sb:0001-01-01T00:00:01Z:t:s:",
      "sb:0001-01-01T00:00:01Z:t:s:i", "sb:0001-01-01T00:00:02Z:t::i",
      "sb:0001-01-01T00:00:02Z:t:s::"
    },
    { \* 7
      ":0001-01-01T00:00:00Z::s:i", ":0001-01-01T00:00:00Z:t:s::i",
      ":0001-01-01T00:00:00Z:t:s:s:s:j", ":0001-01-01T00:00:01Z::s:s:j",
      ":0001-01-01T00:00:03Z::s:", "sa:0001-01-01T00:00:00Z:::i", "sa:0001-01-01T00:00:00Z::s:s:j",
      "sa:0001-01-01T00:00:00Z:t::j", "sa:0001-01-01T00:00:01Z::s:i",
      "sa:0001-01-01T00:00:01Z:t:s::i", "sa:0001-01-01T00:00:01Z:t:s:s:s:",
      "sa:0001-01-01T00:00:02Z:::j", "sa:0001-01-01T00:00:02Z::s:", "sa:0001-01-01T00:00:02Z:t::j",
      "sa:0001-01-01T00:00:02Z:t:s:s:i", "sa:0001-01-01T00:00:03Z::s:s:",
      "sa:0001-01-01T00:00:03Z:t:s:s:s:", "sb:0001-01-01T00:00:00Z:::i",
      "sb:0001-01-01T00:00:00Z:t:s::i", "sb:0001-01-01T00:00:01Z:::",
      "sb:0001-01-01T00:00:01Z:t::j", "sb:0001-01-01T00:00:01Z:t:s:s:s:j",
      "sb:0001-01-01T00:00:02Z:::j", "sb:0001-01-01T00:00:02Z:t:s:s:i",
      "sb:0001-01-01T00:00:02Z:t:s:s:s:i", "sb:0001-01-01T00:00:03Z:t:s:",
      "sb:0001-01-01T00:00:03Z:t:s::", "sb:0001-01-01T00:00:03Z:t:s:i"
    },
    { \* 8
      ":0001-01-01T00:00:01Z:t::", ":0001-01-01T00:00:01Z:t:s:s:s:j", ":0001-01-01T00:00:02Z::s:i",
      ":0001-01-01T00:00:02Z:t:s::i", ":0001-01-01T00:00:02Z:t:s:s:",
      ":0001-01-01T00:00:02Z:t:s:s:s:i", ":0001-01-01T00:00:03Z:t:s:s:s:j",
      "sa:0001-01-01T00:00:00Z::s:s:i", "sa:0001-01-01T00:00:00Z:t:s::i",
      "sa:0001-01-01T00:00:00Z:t:s:s:", "sa:0001-01-01T00:00:01Z:t:s::",
      "sa:0001-01-01T00:00:02Z::s:i", "sa:0001-01-01T00:00:03Z:t::j",
      "sa:0001-01-01T00:00:03Z:t:s::j", "sb:0001-01-01T00:00:00Z:t::i",
      "sb:0001-01-01T00:00:01Z:t:s:s:j", "sb:0001-01-01T00:00:02Z::s:",
      "sb:0001-01-01T00:00:03Z::s:", "sb:0001-01-01T00:00:03Z:t:s::i",
      "sb:0001-01-01T00:00:03Z:t:s:s:s:i"
    },
    { \* 9
      ":0001-01-01T00:00:00Z:t:s:", ":0001-01-01T00:00:01Z::s:s:i", ":0001-01-01T00:00:01Z:t:s:s:",
      ":0001-01-01T00:00:02Z:::", ":0001-01-01T00:00:03Z::s:s:", ":0001-01-01T00:00:03Z:t:s::",
      ":0001-01-01T00:00:03Z:t:s:s:", "sa:0001-01-01T00:00:00Z:t::i",
      "sa:0001-01-01T00:00:01Z:t:s:s:j", "sa:0001-01-01T00:00:01Z:t:s:s:s:i",
      "sb:0001-01-01T00:00:02Z::s:i", "sb:0001-01-01T00:00:02Z:t:s::i",
      "sb:0001-01-01T00:00:02Z:t:s:j", "sb:0001-01-01T00:00:03Z::s:s:",
      "sb:0001-01-01T00:00:03Z:t:s:s:i"
    },
    { \* a
      ":0001-01-01T00:00:00Z::s:j", ":0001-01-01T00:00:00Z::s:s:",
      ":0001-01-01T00:00:01Z:t:s:s:s:", ":0001-01-01T00:00:02Z:t:s:s:i",
      ":0001-01-01T00:00:02Z:t:s:s:s:", ":0001-01-01T00:00:03Z:t:s::j",
      "sa:0001-01-01T00:00:00Z:t:s::", "sa:0001-01-01T00:00:00Z:t:s:s:i",
      "sa:0001-01-01T00:00:00Z:t:s:s:s:i", "sa:0001-01-01T00:00:01Z::s:j",
      "sa:0001-01-01T00:00:01Z:t:s::j", "sb:0001-01-01T00:00:00Z:t::",
      "sb:0001-01-01T00:00:01Z::s:s:", "sb:0001-01-01T00:00:03Z:::"
    },
    { \* b
      ":0001-01-01T00:00:00Z:::", ":0001-01-01T00:00:00Z:t::", ":0001-01-01T00:00:01Z:t:s:",
      "sa:0001-01-01T00:00:00Z:t:s::j", "sa:0001-01-01T00:00:01Z:t:s:s:i",
      "sa:0001-01-01T00:00:02Z::s:s:", "sa:0001-01-01T00:00:02Z:t::",
      "sa:0001-01-01T00:00:03Z::s:i", "sa:0001-01-01T00:00:03Z:t:s:s:j",
      "sb:0001-01-01T00:00:00Z:::j", "sb:0001-01-01T00:00:00Z:t:s:j",
      "sb:0001-01-01T00:00:01Z:t:s::i", "sb:0001-01-01T00:00:01Z:t:s:s:s:",
      "sb:0001-01-01T00:00:02Z:t::j", "sb:0001-01-01T00:00:02Z:t:s:s:s:",
      "sb:0001-01-01T00:00:02Z:t:s:s:s:j", "sb:0001-01-01T00:00:03Z:::i",
      "sb:0001-01-01T00:00:03Z:t::i", "sb:0001-01-01T00:00:03Z:t:s:s:"
    },
    { \* c
      ":0001-01-01T00:00:00Z:t::i", ":0001-01-01T00:00:00Z:t:s::",
      ":0001-01-01T00:00:00Z:t:s:s:s:", ":0001-01-01T00:00:02Z:t::i",
      ":0001-01-01T00:00:02Z:t:s::j", ":0001-01-01T00:00:02Z:t:s:s:j",
      ":0001-01-01T00:00:03Z::s:s:i", "sa:0001-01-01T00:00:00Z:::j",
      "sa:0001-01-01T00:00:00Z::s:j", "sa:0001-01-01T00:00:01Z:t::",
      "sa:0001-01-01T00:00:02Z:t:s:s:s:", "sb:0001-01-01T00:00:00Z::s:j",
      "sb:0001-01-01T00:00:00Z:t:s:", "sb:0001-01-01T00:00:02Z:::i", "sb:0001-01-01T00:00:02Z:t::",
      "sb:0001-01-01T00:00:03Z:t:s:j"
    },
    { \* d
      ":0001-01-01T00:00:00Z:t::j", ":0001-01-01T00:00:01Z:t:s:i", ":0001-01-01T00:00:02Z::s:s:",
      ":0001-01-01T00:00:02Z::s:s:i", ":0001-01-01T00:00:02Z::s:s:j",
      ":0001-01-01T00:00:03Z:t:s:s:j", "sa:0001-01-01T00:00:01Z::s:s:",
      "sa:0001-01-01T00:00:02Z:::", "sa:0001-01-01T00:00:03Z:t:s:s:i",
      "sb:0001-01-01T00:00:00Z::s:", "sb:0001-01-01T00:00:01Z:t:s:s:",
      "sb:0001-01-01T00:00:02Z:t:s:s:j", "sb:0001-01-01T00:00:03Z:t:s:s:s:",
      "sb:0001-01-01T00:00:03Z:t:s:s:s:j"
    },
    { \* e
      ":0001-01-01T00:00:01Z::s:", ":0001-01-01T00:00:02Z:t::", ":0001-01-01T00:00:02Z:t:s:j",
      ":0001-01-01T00:00:03Z::s:j", ":0001-01-01T00:00:03Z:t::i", "sa:0001-01-01T00:00:01Z::s:",
      "sa:0001-01-01T00:00:01Z:t:s:j", "sa:0001-01-01T00:00:02Z::s:s:i",
      "sa:0001-01-01T00:00:02Z:t:s::", "sa:0001-01-01T00:00:03Z:t::",
      "sa:0001-01-01T00:00:03Z:t:s:i", "sb:0001-01-01T00:00:00Z:t::j",
      "sb:0001-01-01T00:00:00Z:t:s::j", "sb:0001-01-01T00:00:00Z:t:s:i",
      "sb:0001-01-01T00:00:00Z:t:s:s:s:", "sb:0001-01-01T00:00:01Z::s:i",
      "sb:0001-01-01T00:00:01Z::s:s:j", "sb:0001-01-01T00:00:01Z:t::i",
      "sb:0001-01-01T00:00:02Z::s:s:i", "sb:0001-01-01T00:00:02Z::s:s:j",
      "sb:0001-01-01T00:00:03Z:::j", "sb:0001-01-01T00:00:03Z::s:i"
    },
    { \* f
      ":0001-01-01T00:00:01Z:t::j", ":0001-01-01T00:00:02Z:t:s:s:s:j", ":0001-01-01T00:00:03Z:::j",
      ":0001-01-01T00:00:03Z:t:s:", ":0001-01-01T00:00:03Z:t:s:s:s:",
      "sa:0001-01-01T00:00:00Z::s:", "sa:0001-01-01T00:00:01Z:::i", "sa:0001-01-01T00:00:02Z:::i",
      "sa:0001-01-01T00:00:02Z:t:s:", "sa:0001-01-01T00:00:03Z:::j",
      "sa:0001-01-01T00:00:03Z:t::i", "sa:0001-01-01T00:00:03Z:t:s::",
      "sb:0001-01-01T00:00:00Z::s:s:i", "sb:0001-01-01T00:00:02Z::s:s:"
    }
  >>

\* xxhash.Sum64String(key) >> 60
Sum64StringShr60(key) == CHOOSE d \in 0..15 : key \in Sum64StringTop4[d + 1]

\* CloudEventToObjectKey that takes the prefix from the next hex digit.
CloudEventToObjectKeyNextDigit(event) ==
  IF event = Nil THEN ""
  ELSE LET key == Key(event[1])
           firstDigit == (Sum64StringShr60(key) + 1) % 16
           hexPrefix == hexChars[firstDigit + 1]
       IN hexPrefix \o key

\* CloudEventToObjectKey; event is a *CloudEventHeader.
CloudEventToObjectKey(event) ==
  IF event = Nil THEN ""
  ELSE LET key == Key(event[1])
           firstDigit == Sum64StringShr60(key)
           hexPrefix == hexChars[firstDigit + 1]
       IN hexPrefix \o key

----------------------------------------------------------------------------
(* Wire envelope decoding (cloudevent_json.go).                             *)

\* definedCloudeEventHdrFields: the json names of CloudEventHeader's fields.
definedCloudeEventHdrFields ==
  {"id", "source", "producer", "specversion", "subject", "time", "type",
   "datacontenttype", "dataschema", "dataversion"}

\* Whether JSON value v decodes into the header field with json name k.
FieldDecodes(k, v) ==
  \/ v.j = "null"
  \/ IF k = "time" THEN v.j = "time" ELSE v.j \in {"str", "time"}

\* encoding/json: the member names of the model that are not in lower case,
\* with the name they fold to; json.Unmarshal matches a member to a struct field
\* when the member's name equals the field's json name under case folding.
foldedNames ==
  [ID |-> "id", Id |-> "id", SPECVERSION |-> "specversion", Subject |-> "subject",
   Data |-> "data"]

\* The case folding of member name k.
foldName(k) == IF k \in DOMAIN foldedNames THEN foldedNames[k] ELSE k

\* The member of object o that json.Unmarshal decodes into the field with json
\* name k; null when o has none. (Of two members for one field the later one
\* of the text wins; an object of the model does not order its members, and
\* the documents tried hold at most one member for a field.)
FieldMember(o, k) ==
  LET ms == {m \in DOMAIN o : foldName(m) = k}
  IN IF ms = {} THEN JNull ELSE o[CHOOSE m \in ms : TRUE]

\* Whether json.Unmarshal(data, &aux) succeeds for aux a cloudEventHeader.
AuxDecodes(data) ==
  /\ data.kind = "json"
  /\ \/ data.val.j = "null"
     \/ /\ data.val.j = "obj"
        /\ \A m \in DOMAIN data.val.o :
             foldName(m) \in definedCloudeEventHdrFields
               => FieldDecodes(foldName(m), data.val.o[m])

\* The string json.Unmarshal leaves in the field named k.
StringField(o, k) ==
  LET v == FieldMember(o, k)
  IN IF v.j = "str" THEN v.s
     ELSE IF v.j = "time" THEN FormatRFC3339Nano(v.n)
     ELSE ""

\* The time json.Unmarshal leaves in the field named k.
TimeField(o, k) ==
  LET v == FieldMember(o, k) IN IF v.j = "time" THEN v.n ELSE 0

\* The members of a JSON text that is an object (none for null).
Members(data) == IF data.val.j = "obj" THEN data.val.o ELSE <<>>

\* unmarshalCloudEvent that also keeps the data member in Extras.
unmarshalCloudEventKeepsData(data, withData) ==
  IF ~AuxDecodes(data)
  THEN [hdr |-> emptyHdr, data |-> NilBytes, err |-> <<"json: cannot unmarshal">>]
  ELSE
    LET o == Members(data)
        extraKeys == DOMAIN o \ definedCloudeEventHdrFields
        c == [emptyHdr EXCEPT
                !.ID = StringField(o, "id"),
                !.Source = StringField(o, "source"),
                !.Producer = StringField(o, "producer"),
                !.SpecVersion = SpecVersion,
                !.Subject = StringField(o, "subject"),
                !.Time = TimeField(o, "time"),
                !.Type = StringField(o, "type"),
                !.DataContentType = StringField(o, "datacontenttype"),
                !.DataSchema = StringField(o, "dataschema"),
                !.DataVersion = StringField(o, "dataversion"),
                !.Extras = IF extraKeys = {} THEN NilMap
                           ELSE Map([k \in extraKeys |-> UnmarshalAny(o[k])])]
    IN [hdr |-> c,
        data |-> IF withData /\ "data" \in DOMAIN o THEN Text(o["data"]) ELSE NilBytes,
        err |-> <<>>]

\* unmarshalCloudEvent; withData tells setDataField from ignoreDataField.
\* Returns the header, the payload the data callback kept, and the error.
unmarshalCloudEvent(data, withData) ==
  IF ~AuxDecodes(data)
  THEN [hdr |-> emptyHdr, data |-> NilBytes, err |-> <<"json: cannot unmarshal">>]
  ELSE
    LET o == Members(data)
        extraKeys == DOMAIN o \ (definedCloudeEventHdrFields \cup {"data"})
        c == [emptyHdr EXCEPT
                !.ID = StringField(o, "id"),
                !.Source = StringField(o, "source"),
                !.Producer = StringField(o, "producer"),
                !.SpecVersion = SpecVersion,
                !.Subject = StringField(o, "subject"),
                !.Time = TimeField(o, "time"),
                !.Type = StringField(o, "type"),
                !.DataContentType = StringField(o, "datacontenttype"),
                !.DataSchema = StringField(o, "dataschema"),
                !.DataVersion = StringField(o, "dataversion"),
                !.Extras = IF extraKeys = {} THEN NilMap
                           ELSE Map([k \in extraKeys |-> UnmarshalAny(o[k])])]
    IN [hdr |-> c,
        data |-> IF withData /\ "data" \in DOMAIN o THEN Text(o["data"]) ELSE NilBytes,
        err |-> <<>>]

----------------------------------------------------------------------------
(* Wire envelope encoding (cloudevent_json.go).                             *)

\* The Extras keys of the wire model: a plain key, two keys that resemble the
\* names of fields without a column, a key with a dot, and the name of a
\* named field.
WireKeys == {"extra1", "signature", "tags", "a.b", "specversion"}

\* The parts sjson splits a path into at its dots.
sjsonPath == [k \in WireKeys |-> IF k = "a.b" THEN <<"a", "b">> ELSE <<k>>]

\* Object members o with the member k set to v.
SetMember(o, k, v) == [x \in DOMAIN o \cup {k} |-> IF x = k THEN v ELSE o[x]]

\* sjson.SetBytes(data, path, v) on the members o of a JSON object: the value
\* is set at the path, and the objects on the way to it are created.
SetBytes(o, path, v) ==
  LET parts == sjsonPath[path]
  IN IF Len(parts) = 1 THEN SetMember(o, parts[1], MarshalAny(v))
     ELSE LET inner == IF parts[1] \in DOMAIN o /\ o[parts[1]].j = "obj"
                       THEN o[parts[1]].o ELSE <<>>
          IN SetMember(o, parts[1], JObj(SetMember(inner, parts[2], MarshalAny(v))))

\* json.Marshal(aux) for aux a cloudEventHeader: the members of the object.
MarshalAux(aux) ==
  LET always == {"id", "source", "producer", "specversion", "subject", "time", "type"}
      names == always
                 \cup (IF aux.DataContentType # "" THEN {"datacontenttype"} ELSE {})
                 \cup (IF aux.DataSchema # "" THEN {"dataschema"} ELSE {})
                 \cup (IF aux.DataVersion # "" THEN {"dataversion"} ELSE {})
  IN [k \in names |->
        CASE k = "id" -> JStr(aux.ID)
          [] k = "source" -> JStr(aux.Source)
          [] k = "producer" -> JStr(aux.Producer)
          [] k = "specversion" -> JStr(aux.SpecVersion)
          [] k = "subject" -> JStr(aux.Subject)
          [] k = "time" -> JTime(aux.Time)
          [] k = "type" -> JStr(aux.Type)
          [] k = "datacontenttype" -> JStr(aux.DataContentType)
          [] k = "dataschema" -> JStr(aux.DataSchema)
          [] k = "dataversion" -> JStr(aux.DataVersion)]

\* The loop of MarshalJSON over the entries keys of Extras still to be added.
\* The keys of the model write to different members, so that the order in
\* which the map is ranged over does not change the result.
RECURSIVE AddExtras(_, _, _)
AddExtras(o, kv, keys) ==
  IF keys = {} THEN o
  ELSE LET k == CHOOSE x \in keys : TRUE
       IN AddExtras(SetBytes(o, k, kv[k]), kv, keys \ {k})

\* MarshalJSON that encodes the SpecVersion the header holds.
MarshalJSONKeepsVersion(c) ==
  [data |-> Text(JObj(AddExtras(MarshalAux(c), c.Extras.kv, DOMAIN c.Extras.kv))),
   err |-> <<>>]

\* CloudEventHeader.MarshalJSON: the bytes and the error.
MarshalJSON(c) ==
  LET aux == [c EXCEPT !.SpecVersion = SpecVersion]
  IN [data |-> Text(JObj(AddExtras(MarshalAux(aux), c.Extras.kv, DOMAIN c.Extras.kv))),
      err |-> <<>>]

\* CloudEvent.MarshalJSON for an event with header c and payload d (a JSON
\* value): the bytes and the error.
MarshalEventJSON(c, d) ==
  LET hdr == MarshalJSON(c)
  IN [data |-> Text(JObj(SetMember(hdr.data.val.o, "data", d))), err |-> <<>>]

\* CloudEvent.UnmarshalJSON: the header, the payload and the error.
UnmarshalEventJSON(data) == unmarshalCloudEvent(data, TRUE)

\* CloudEventHeader.UnmarshalJSON: the header and the error.
UnmarshalJSON(data) ==
  LET r == unmarshalCloudEvent(data, FALSE)
  IN [hdr |-> r.hdr, err |-> r.err]

----------------------------------------------------------------------------
(* Row projection (pkg/clickhouse/clickhouse.go) and the cloud_event table. *)

\* json.Marshal(event.Extras)
MarshalExtras(m) ==
  IF m.isNil THEN JNull ELSE JObj([k \in DOMAIN m.kv |-> MarshalAny(m.kv[k])])

\* CloudEventToSliceWithKey; event is the header event points to.
CloudEventToSliceWithKey(event, key) ==
  [subject |-> event.Subject,
   event_time |-> event.Time,
   event_type |-> event.Type,
   id |-> event.ID,
   source |-> event.Source,
   producer |-> event.Producer,
   data_content_type |-> event.DataContentType,
   data_version |-> event.DataVersion,
   extras |-> Text(MarshalExtras(event.Extras)),
   index_key |-> key]

\* CloudEventToSlice that stores the key without its prefix.
CloudEventToSliceBareKey(event) == CloudEventToSliceWithKey(event[1], Key(event[1]))

\* CloudEventToSlice; event is a non-nil *CloudEventHeader.
CloudEventToSlice(event) == CloudEventToSliceWithKey(event[1], CloudEventToObjectKey(event))

\* event_time DateTime64(3, 'UTC'): a stored time keeps whole milliseconds.
DateTime64(t) == (t \div 1000) * 1000

\* The sorting key of the cloud_event table.
OrderByKey(row) == <<row.subject, row.event_time, row.event_type, row.source, row.id>>

\* A time.Time passed for a positional "?" of chConn.Exec or chConn.Query: the
\* driver writes it into the statement as toDateTime('2006-01-02 15:04:05'),
\* the time cut to whole seconds.
toDateTime(t) == (t \div 1000000) * 1000000

\* INSERT INTO cloud_event: the table after Exec(InsertStmt, values...), whose
\* second value is the time of the header.
InsertRow(table, values) ==
  Append(table, [values EXCEPT !.event_time = DateTime64(toDateTime(values.event_time))])

\* ENGINE = ReplacingMergeTree(): a background merge keeps, of the rows with one
\* sorting key, the row inserted last.
Superseded(table, i) == \E j \in (i + 1)..Len(table) : OrderByKey(table[j]) = OrderByKey(table[i])

Merged(table) ==
  LET keep == {i \in 1..Len(table) : ~Superseded(table, i)}
      F[n \in 0..Len(table)] ==
        IF n = 0 THEN <<>>
        ELSE IF n \in keep THEN Append(F[n - 1], table[n]) ELSE F[n - 1]
  IN F[Len(table)]

\* RestoreNonColumnFields: moves specversion, dataschema and tags from Extras to
\* their header fields, and copies signature.
RestoreNonColumnFields(event) ==
  IF event.Extras.isNil THEN event
  ELSE
    LET kv == event.Extras.kv
        has(k) == k \in DOMAIN kv
        isStr(k) == has(k) /\ kv[k].g = "string"
        isTags == has("tags") /\ kv["tags"].g = "[]any"
                    /\ \A i \in 1..Len(kv["tags"].a) : kv["tags"].a[i].g = "string"
        rest == DOMAIN kv \ {"specversion", "dataschema", "tags"}
    IN [event EXCEPT
          !.SpecVersion = IF isStr("specversion") THEN kv["specversion"].s ELSE @,
          !.DataSchema = IF isStr("dataschema") THEN kv["dataschema"].s ELSE @,
          !.Signature = IF isStr("signature") THEN kv["signature"].s ELSE @,
          !.Tags = IF isTags THEN [i \in 1..Len(kv["tags"].a) |-> kv["tags"].a[i].s] ELSE @,
          !.Extras = Map([k \in rest |-> kv[k]])]

\* AddNonColumnFieldsToExtras: a copy of the Extras of the header with
\* SpecVersion, DataSchema, Signature and Tags added under their reserved keys
\* where they are not zero; event is the header. The header is left as it is.
AddNonColumnFieldsToExtras(event) ==
  LET kv == event.Extras.kv
      added == (IF event.SpecVersion # "" THEN {"specversion"} ELSE {})
                 \cup (IF event.DataSchema # "" THEN {"dataschema"} ELSE {})
                 \cup (IF event.Signature # "" THEN {"signature"} ELSE {})
                 \cup (IF Len(event.Tags) > 0 THEN {"tags"} ELSE {})
  IN [extras |-> Map([k \in DOMAIN kv \cup added |->
                        IF k \notin added THEN kv[k]
                        ELSE CASE k = "specversion" -> GStr(event.SpecVersion)
                               [] k = "dataschema" -> GStr(event.DataSchema)
                               [] k = "signature" -> GStr(event.Signature)
                               [] k = "tags" -> GStrings(event.Tags)]),
      event |-> event]

----------------------------------------------------------------------------
(* The migrations of the index database (pkg/clickhouse/migrations). The    *)
(* tables of the database are a function from table names to the engine and *)
(* the rows of the table.                                                   *)

ReplacingMergeTree == "ReplacingMergeTree"
MergeTree == "MergeTree"

\* A statement of a migration. do: "create" (CREATE TABLE table, AS like when
\* like is a table name, with the engine), "rename" (RENAME TABLE table TO
\* to), "drop" (DROP TABLE table), "version" (goose records that n
\* migrations are applied); lenient: IF NOT EXISTS, IF EXISTS.
Statement(do, table, to, like, engine, lenient) ==
  [do |-> do, table |-> table, to |-> to, like |-> like, engine |-> engine,
   lenient |-> lenient, n |-> 0]

\* 00006_cloud_event_table_migration.sql
cloudEventTableMigration ==
  [name |-> "00006_cloud_event_table_migration",
   up |-> <<Statement("create", "cloud_event", "", "", ReplacingMergeTree, TRUE)>>,
   down |-> <<Statement("drop", "cloud_event", "", "", "", TRUE)>>]

\* 00007_update_cloudevent_index_keys_migration.go:
\* upUpdateCloudeventIndexKeys and downUpdateCloudeventIndexKeys
updateCloudeventIndexKeys ==
  [name |-> "00007_update_cloudevent_index_keys_migration",
   up |-> <<Statement("create", "cloud_event_new", "", "cloud_event", ReplacingMergeTree, FALSE),
            Statement("rename", "cloud_event", "cloud_event_backup", "", "", FALSE),
            Statement("rename", "cloud_event_new", "cloud_event", "", "", FALSE)>>,
   down |-> <<Statement("create", "cloud_event_original", "", "cloud_event", MergeTree, FALSE),
              Statement("rename", "cloud_event", "cloud_event_temp", "", "", FALSE),
              Statement("rename", "cloud_event_original", "cloud_event", "", "", FALSE),
              Statement("drop", "cloud_event_temp", "", "", "", TRUE),
              Statement("drop", "cloud_event_backup", "", "", "", TRUE)>>]

\* The migrations of the cloud_event table, in the order of their versions.
Migrations == <<cloudEventTableMigration, updateCloudeventIndexKeys>>

\* tx.ExecContext(ctx, statement) on the tables: whether the statement
\* succeeds, and the tables afterwards.
ExecContext(tables, s) ==
  LET there == s.table \in DOMAIN tables
      failed == [ok |-> FALSE, tables |-> tables]
  IN CASE s.do = "create" ->
            IF there THEN [ok |-> s.lenient, tables |-> tables]
            ELSE IF s.like # "" /\ s.like \notin DOMAIN tables THEN failed
            ELSE [ok |-> TRUE,
                  tables |-> [n \in DOMAIN tables \cup {s.table} |->
                                IF n = s.table THEN [engine |-> s.engine, rows |-> <<>>]
                                ELSE tables[n]]]
       [] s.do = "rename" ->
            IF ~there \/ s.to \in DOMAIN tables THEN failed
            ELSE [ok |-> TRUE,
                  tables |-> [n \in (DOMAIN tables \ {s.table}) \cup {s.to} |->
                                IF n = s.to THEN tables[s.table] ELSE tables[n]]]
       [] s.do = "drop" ->
            IF ~there THEN [ok |-> s.lenient, tables |-> tables]
            ELSE [ok |-> TRUE, tables |-> [n \in DOMAIN tables \ {s.table} |-> tables[n]]]

\* What a call of RunGoose still has to do: statements, and after the
\* statements of a migration the record of the migrations that are then
\* applied (do: "version", to: their number).
Version(n) == [Statement("version", "", "", "", "", FALSE) EXCEPT !.n = n]

\* goose up: the migrations not applied yet, in order; goose down: the
\* migration applied last. applied is the number of migrations applied.
Plan(cmd, applied) ==
  LET F[i \in applied..Len(Migrations)] ==
        IF i = applied THEN <<>>
        ELSE F[i - 1] \o Migrations[i].up \o <<Version(i)>>
  IN IF cmd = "up" THEN F[Len(Migrations)]
     ELSE IF applied = 0 THEN <<>>
     ELSE Migrations[applied].down \o <<Version(applied - 1)>>

\* The database: the number of migrations applied, the engine of the
\* cloud_event table ("" when there is no such table; its rows are the index),
\* the other tables, and the call of RunGoose that is running (Nil when none
\* is): its command and what it still has to do.
Database(applied, engine, tables, goose) ==
  [applied |-> applied, engine |-> engine, tables |-> tables, goose |-> goose]

\* The database of a service that is set up: every migration is applied, by
\* goose up on a database without the tables.
Migrated ==
  Database(Len(Migrations), ReplacingMergeTree,
           [n \in {"cloud_event_backup"} |-> [engine |-> ReplacingMergeTree, rows |-> <<>>]],
           Nil)

\* The tables of the database d whose cloud_event table holds the rows table.
TablesOf(d, table) ==
  [n \in DOMAIN d.tables \cup (IF d.engine = "" THEN {} ELSE {"cloud_event"}) |->
     IF n = "cloud_event" THEN [engine |-> d.engine, rows |-> table] ELSE d.tables[n]]

\* A call of RunGoose with the command cmd ("up", "down") on a database with
\* applied migrations, before its first statement.
Goose(cmd, applied) == [cmd |-> cmd, plan |-> Plan(cmd, applied)]

\* migrations.RunGoose, one statement at a time: the call runs the next
\* statement of its plan on the database d and the rows table of cloud_event,
\* stops at a statement that fails, and returns after the last one. Gives
\* the database, the rows of cloud_event, whether the call has returned, and
\* the error.
RunGoose(d, table) ==
  LET plan == d.goose[1].plan
      s == plan[1]
      rest == IF Len(plan) = 1 THEN Nil ELSE Ptr([d.goose[1] EXCEPT !.plan = Tail(plan)])
      r == ExecContext(TablesOf(d, table), s)
      there == "cloud_event" \in DOMAIN r.tables
  IN IF plan = <<>>
     THEN [db |-> [d EXCEPT !.goose = Nil], index |-> table, done |-> TRUE, err |-> <<>>]
     ELSE IF s.do = "version"
     THEN [db |-> [d EXCEPT !.applied = s.n, !.goose = rest], index |-> table,
           done |-> rest = Nil, err |-> <<>>]
     ELSE IF ~r.ok
     THEN [db |-> [d EXCEPT !.goose = Nil], index |-> table, done |-> TRUE,
           err |-> <<"goose: failed to run migration">>]
     ELSE [db |-> [d EXCEPT
                     !.engine = IF there THEN r.tables["cloud_event"].engine ELSE "",
                     !.tables = [n \in DOMAIN r.tables \ {"cloud_event"} |-> r.tables[n]],
                     !.goose = rest],
           index |-> IF there THEN r.tables["cloud_event"].rows ELSE <<>>,
           done |-> FALSE, err |-> <<>>]

----------------------------------------------------------------------------
(* Errors.                                                                  *)

\* sql.ErrNoRows
ErrNoRows == "sql: no rows in result set"

\* fmt.Errorf("msg: %w", err)
Wrap(msg, err) == <<msg>> \o err

\* errors.Is(err, target)
Is(err, target) == \E i \in 1..Len(err) : err[i] = target

----------------------------------------------------------------------------
(* Decentralized identifiers (did.go). A string is a sequence of tokens: the *)
(* separators ":" and "_" are tokens of their own and no other token holds   *)
(* one, so that strings.Split and the concatenation of String() are computed *)
(* on the sequence.                                                          *)

ERC721DIDMethod == "erc721"
EthrDIDMethod == "ethr"
ERC20DIDMethod == "erc20"

errInvalidDID == "invalid DID"

RECURSIVE SplitFrom(_, _, _, _)
\* The parts of s[i..] split at sep, the part under way being cur.
SplitFrom(s, sep, i, cur) ==
  IF i > Len(s) THEN <<cur>>
  ELSE IF s[i] = sep THEN <<cur>> \o SplitFrom(s, sep, i + 1, <<>>)
  ELSE SplitFrom(s, sep, i + 1, Append(cur, s[i]))

\* strings.Split(s, sep)
Split(s, sep) == SplitFrom(s, sep, 1, <<>>)

\* The decimal tokens strconv.ParseUint(_, 10, 64) accepts, with their values.
uintTokens == ("0" :> 0) @@ ("1" :> 1) @@ ("7" :> 7) @@ ("137" :> 137) @@ ("007" :> 7)

\* strconv.ParseUint(s, 10, 64): a sign, a letter, an underscore, the empty
\* string and a value over 64 bits are errors.
ParseUint(s) ==
  IF Len(s) = 1 /\ s[1] \in DOMAIN uintTokens
  THEN [val |-> uintTokens[s[1]], ok |-> TRUE]
  ELSE [val |-> 0, ok |-> FALSE]

\* strconv.FormatUint(n, 10)
FormatUint(n) == CASE n = 0 -> "0" [] n = 1 -> "1" [] n = 7 -> "7" [] n = 137 -> "137"

\* The 20 bytes of an address, written as 40 lower-case hex digits.
addrA == "ba5738a18d83d41847dffbdc6101d37c69c9b0cf"
addrB == "1234567890123456789012345678901234567890"
\* common.Address{}
addrZero == "0000000000000000000000000000000000000000"

\* The tokens of 40 hex digits, with or without 0x, and the bytes they stand
\* for.
hexAddresses ==
  ("0xbA5738a18d83D41847dfFbDC6101d37C69c9B0cF" :> addrA) @@
  ("0xba5738a18d83d41847dffbdc6101d37c69c9b0cf" :> addrA) @@
  ("bA5738a18d83D41847dfFbDC6101d37C69c9B0cF" :> addrA) @@
  ("0x1234567890123456789012345678901234567890" :> addrB) @@
  ("0x0000000000000000000000000000000000000000" :> addrZero)

\* common.IsHexAddress(s)
IsHexAddress(s) == Len(s) = 1 /\ s[1] \in DOMAIN hexAddresses

\* common.HexToAddress(s), for s a hex address
HexToAddress(s) == hexAddresses[s[1]]

\* Address.Hex(): 0x and the digits in EIP-55 mixed case.
Hex(a) ==
  CASE a = addrA -> "0xbA5738a18d83D41847dfFbDC6101d37C69c9B0cF"
    [] a = addrB -> "0x1234567890123456789012345678901234567890"
    [] a = addrZero -> "0x0000000000000000000000000000000000000000"

\* The tokens big.Int.SetString(_, 10) accepts, with their values.
bigTokens ==
  ("0" :> 0) @@ ("1" :> 1) @@ ("5" :> 5) @@ ("7" :> 7) @@ ("123" :> 123) @@
  ("137" :> 137) @@ ("-123" :> (0 - 123)) @@ ("-0" :> 0) @@ ("+5" :> 5) @@ ("007" :> 7)

\* big.NewInt(0).SetString(s, 10)
SetString(s) ==
  IF Len(s) = 1 /\ s[1] \in DOMAIN bigTokens
  THEN [val |-> bigTokens[s[1]], ok |-> TRUE]
  ELSE [val |-> 0, ok |-> FALSE]

\* (*big.Int).String(), "<nil>" for a nil pointer
BigString(x) ==
  IF x = Nil THEN "<nil>"
  ELSE CASE x[1] = 0 -> "0" [] x[1] = 1 -> "1" [] x[1] = 5 -> "5" [] x[1] = 7 -> "7"
         [] x[1] = 123 -> "123" [] x[1] = 137 -> "137" [] x[1] = 0 - 123 -> "-123"

\* ERC721DID{}
ZeroERC721DID == [ChainID |-> 0, ContractAddress |-> addrZero, TokenID |-> Nil]

\* EthrDID{}, ERC20DID{}
ZeroAddressDID == [ChainID |-> 0, ContractAddress |-> addrZero]

\* return ERC721DID{}, fmt.Errorf("%w, msg", errInvalidDID)
ERC721Failure(msg) == [did |-> ZeroERC721DID, err |-> Wrap(msg, <<errInvalidDID>>)]

\* DecodeLegacyNFTDID that accepts a token ID of either sign.
DecodeLegacyNFTDIDAnySign(did) ==
  LET parts == Split(did, ":")
  IN IF Len(parts) # 4 THEN [did |-> ZeroERC721DID, err |-> <<errInvalidDID>>]
     ELSE IF parts[1] # <<"did">> THEN ERC721Failure("incorrect DID prefix")
     ELSE IF parts[2] # <<"nft">> THEN ERC721Failure("incorrect DID method")
     ELSE LET nftParts == Split(parts[4], "_")
          IN IF Len(nftParts) # 2 THEN ERC721Failure("incorrect NFT format")
             ELSE IF ~SetString(nftParts[2]).ok THEN ERC721Failure("invalid token ID")
             ELSE IF ~IsHexAddress(nftParts[1])
                  THEN ERC721Failure("invalid contract address")
             ELSE IF ~ParseUint(parts[3]).ok THEN ERC721Failure("invalid chain ID")
             ELSE [did |-> [ChainID |-> ParseUint(parts[3]).val,
                            ContractAddress |-> HexToAddress(nftParts[1]),
                            TokenID |-> Ptr(SetString(nftParts[2]).val)],
                   err |-> <<>>]

\* DecodeLegacyNFTDID(did): the DID and the error.
DecodeLegacyNFTDID(did) ==
  LET parts == Split(did, ":")
  IN IF Len(parts) # 4 THEN [did |-> ZeroERC721DID, err |-> <<errInvalidDID>>]
     ELSE IF parts[1] # <<"did">> THEN ERC721Failure("incorrect DID prefix")
     ELSE IF parts[2] # <<"nft">> THEN ERC721Failure("incorrect DID method")
     ELSE LET nftParts == Split(parts[4], "_")
          IN IF Len(nftParts) # 2 THEN ERC721Failure("incorrect NFT format")
             ELSE IF ~SetString(nftParts[2]).ok THEN ERC721Failure("invalid token ID")
             ELSE IF SetString(nftParts[2]).val < 0
                  THEN ERC721Failure("token ID cannot be negative")
             ELSE IF ~IsHexAddress(nftParts[1])
                  THEN ERC721Failure("invalid contract address")
             ELSE IF ~ParseUint(parts[3]).ok THEN ERC721Failure("invalid chain ID")
             ELSE [did |-> [ChainID |-> ParseUint(parts[3]).val,
                            ContractAddress |-> HexToAddress(nftParts[1]),
                            TokenID |-> Ptr(SetString(nftParts[2]).val)],
                   err |-> <<>>]

\* DecodeERC721DID(did): the DID and the error.
DecodeERC721DID(did) ==
  LET parts == Split(did, ":")
  IN IF Len(parts) # 5
     THEN IF Len(parts) = 4 /\ parts[2] = <<"nft">>
          THEN DecodeLegacyNFTDID(did)
          ELSE [did |-> ZeroERC721DID, err |-> <<errInvalidDID>>]
     ELSE IF parts[1] # <<"did">> THEN ERC721Failure("incorrect DID prefix")
     ELSE IF parts[2] # <<ERC721DIDMethod>> THEN ERC721Failure("incorrect DID method")
     ELSE IF ~ParseUint(parts[3]).ok THEN ERC721Failure("invalid chain ID")
     ELSE IF ~IsHexAddress(parts[4]) THEN ERC721Failure("invalid contract address")
     ELSE IF ~SetString(parts[5]).ok THEN ERC721Failure("invalid token ID")
     ELSE IF SetString(parts[5]).val < 0 THEN ERC721Failure("token ID cannot be negative")
     ELSE [did |-> [ChainID |-> ParseUint(parts[3]).val,
                    ContractAddress |-> HexToAddress(parts[4]),
                    TokenID |-> Ptr(SetString(parts[5]).val)],
           err |-> <<>>]

\* ERC721DID.String() in the legacy form did:nft:<chain>:<address>_<token>.
ERC721DIDStringLegacy(e) ==
  <<"did", ":", "nft", ":", FormatUint(e.ChainID), ":", Hex(e.ContractAddress), "_",
    BigString(e.TokenID)>>

\* ERC721DID.String()
ERC721DIDString(e) ==
  <<"did", ":", ERC721DIDMethod, ":", FormatUint(e.ChainID), ":", Hex(e.ContractAddress),
    ":", BigString(e.TokenID)>>

\* return 0, common.Address{}, fmt.Errorf("%w, msg", errInvalidDID)
AddressFailure(msg) ==
  [chainID |-> 0, contractAddress |-> addrZero, err |-> Wrap(msg, <<errInvalidDID>>)]

\* decodeAddressDID(did, method): the chain ID, the address and the error.
decodeAddressDID(did, method) ==
  LET parts == Split(did, ":")
  IN IF Len(parts) # 4
     THEN [chainID |-> 0, contractAddress |-> addrZero, err |-> <<errInvalidDID>>]
     ELSE IF parts[1] # <<"did">> THEN AddressFailure("wrong DID prefix")
     ELSE IF parts[2] # <<method>> THEN AddressFailure("wrong DID method")
     ELSE IF ~ParseUint(parts[3]).ok THEN AddressFailure("invalid chain ID")
     ELSE IF ~IsHexAddress(parts[4]) THEN AddressFailure("invalid contract address")
     ELSE [chainID |-> ParseUint(parts[3]).val,
           contractAddress |-> HexToAddress(parts[4]), err |-> <<>>]

\* DecodeEthrDID(did): the DID and the error.
DecodeEthrDID(did) ==
  LET r == decodeAddressDID(did, EthrDIDMethod)
  IN IF r.err # <<>> THEN [did |-> ZeroAddressDID, err |-> r.err]
     ELSE [did |-> [ChainID |-> r.chainID, ContractAddress |-> r.contractAddress],
           err |-> <<>>]

\* DecodeERC20DID(did): the DID and the error.
DecodeERC20DID(did) ==
  LET r == decodeAddressDID(did, ERC20DIDMethod)
  IN IF r.err # <<>> THEN [did |-> ZeroAddressDID, err |-> r.err]
     ELSE [did |-> [ChainID |-> r.chainID, ContractAddress |-> r.contractAddress],
           err |-> <<>>]

----------------------------------------------------------------------------
(* Search options and the query they build (eventrepo.go).                  *)

\* SearchOptions{}: no option set. A zero After/Before is "not set".
NoOptions ==
  [After |-> 0, Before |-> 0, Subject |-> Nil, TimestampAsc |-> FALSE, Type |-> Nil,
   ID |-> Nil, Source |-> Nil, Producer |-> Nil, DataVersion |-> Nil,
   DataContentType |-> Nil, Extras |-> Nil, IndexKey |-> Nil]

\* qm.Where(column + " " + cmp + " ?", val)
Where(column, cmp, val) == [col |-> column, cmp |-> cmp, val |-> val]

\* QueryMods that turns a nil *SearchOptions into a condition no row meets.
QueryModsNilNone(o) ==
  IF o = Nil THEN <<Where("index_key", "=", "")>>
  ELSE LET opt == o[1] IN
    (IF opt.ID # Nil THEN <<Where("id", "=", opt.ID[1])>> ELSE <<>>)
    \o (IF opt.After # 0 THEN <<Where("event_time", ">", opt.After)>> ELSE <<>>)
    \o (IF opt.Before # 0 THEN <<Where("event_time", "<", opt.Before)>> ELSE <<>>)
    \o (IF opt.Type # Nil THEN <<Where("event_type", "=", opt.Type[1])>> ELSE <<>>)
    \o (IF opt.DataVersion # Nil THEN <<Where("data_version", "=", opt.DataVersion[1])>> ELSE <<>>)
    \o (IF opt.Subject # Nil THEN <<Where("subject", "=", opt.Subject[1])>> ELSE <<>>)
    \o (IF opt.Source # Nil THEN <<Where("source", "=", opt.Source[1])>> ELSE <<>>)
    \o (IF opt.Producer # Nil THEN <<Where("producer", "=", opt.Producer[1])>> ELSE <<>>)
    \o (IF opt.Extras # Nil THEN <<Where("extras", "=", opt.Extras[1])>> ELSE <<>>)

\* SearchOptions.QueryMods; o is a *SearchOptions.
QueryMods(o) ==
  IF o = Nil THEN <<>>
  ELSE LET opt == o[1] IN
    (IF opt.ID # Nil THEN <<Where("id", "=", opt.ID[1])>> ELSE <<>>)
    \o (IF opt.After # 0 THEN <<Where("event_time", ">", opt.After)>> ELSE <<>>)
    \o (IF opt.Before # 0 THEN <<Where("event_time", "<", opt.Before)>> ELSE <<>>)
    \o (IF opt.Type # Nil THEN <<Where("event_type", "=", opt.Type[1])>> ELSE <<>>)
    \o (IF opt.DataVersion # Nil THEN <<Where("data_version", "=", opt.DataVersion[1])>> ELSE <<>>)
    \o (IF opt.Subject # Nil THEN <<Where("subject", "=", opt.Subject[1])>> ELSE <<>>)
    \o (IF opt.Source # Nil THEN <<Where("source", "=", opt.Source[1])>> ELSE <<>>)
    \o (IF opt.Producer # Nil THEN <<Where("producer", "=", opt.Producer[1])>> ELSE <<>>)
    \o (IF opt.Extras # Nil THEN <<Where("extras", "=", opt.Extras[1])>> ELSE <<>>)

\* The value of a column of a row.
Column(row, col) ==
  CASE col = "subject" -> row.subject
    [] col = "event_time" -> row.event_time
    [] col = "event_type" -> row.event_type
    [] col = "id" -> row.id
    [] col = "source" -> row.source
    [] col = "producer" -> row.producer
    [] col = "data_content_type" -> row.data_content_type
    [] col = "data_version" -> row.data_version
    [] col = "extras" -> row.extras
    [] col = "index_key" -> row.index_key

\* One WHERE condition on a row.
Holds(row, mod) ==
  CASE mod.cmp = "=" -> Column(row, mod.col) = mod.val
    [] mod.cmp = ">" -> Column(row, mod.col) > mod.val
    [] mod.cmp = "<" -> Column(row, mod.col) < mod.val

\* The rows of the table a query with these conditions selects: the conditions
\* of several qm.Where are joined by AND.
Selected(table, mods) ==
  {i \in 1..Len(table) : \A k \in 1..Len(mods) : Holds(table[i], mods[k])}

\* ORDER BY event_time <order>: row a may come before row b.
MayPrecede(a, b, order) ==
  IF order = " ASC" THEN a.event_time <= b.event_time ELSE a.event_time >= b.event_time

\* The conditions as chConn.Query sends them: the arguments After and Before
\* of the conditions on event_time are time.Time values for a positional "?".
bindPositional(mods) ==
  [k \in 1..Len(mods) |->
     IF mods[k].col = "event_time" THEN [mods[k] EXCEPT !.val = toDateTime(mods[k].val)]
     ELSE mods[k]]

\* newQuery + chConn.Query: every answer the table may give to
\* SELECT ... WHERE mods ORDER BY event_time <order> LIMIT limit
\* (rows with equal event_time come in any order).
QueryResults(table, mods, order, limit) ==
  LET sel == Selected(table, bindPositional(mods))
      n == Min(limit, Cardinality(sel))
      picks == {s \in [1..n -> sel] :
                  /\ \A a, b \in 1..n : a < b =>
                       s[a] # s[b] /\ MayPrecede(table[s[a]], table[s[b]], order)
                  /\ \A i \in sel \ Range(s) : \A a \in 1..n :
                       MayPrecede(table[s[a]], table[i], order)}
  IN {[a \in 1..n |-> table[s[a]]] : s \in picks}

\* The zero cloudevent.CloudEvent[ObjectInfo] and cloudevent.CloudEvent[json.RawMessage].
NoIndex == [hdr |-> emptyHdr, key |-> ""]
NoEvent == [hdr |-> emptyHdr, data |-> NilBytes]

\* What an operation returns; an operation fills in the fields of its result.
\* opts is the SearchOptions the caller's pointer refers to afterwards, for
\* the operations that assign to it.
NoRet ==
  [err |-> <<>>, panic |-> FALSE, indexes |-> <<>>, index |-> NoIndex,
   events |-> <<>>, event |-> NoEvent, objs |-> <<>>, obj |-> NilBytes, opts |-> Nil]

\* A nil pointer dereference.
Panic == [NoRet EXCEPT !.panic = TRUE]

\* A collaborator call: the function, the key (object store) and whether it succeeded.
Call(fn, key, ok) == [fn |-> fn, key |-> key, ok |-> ok]

\* ScanRow that decodes the extras and restores no field from them.
ScanRowNoRestore(row) ==
  LET event == HeaderWithNonColumnFields(
                 [emptyHdr EXCEPT
                    !.Subject = row.subject, !.Time = row.event_time,
                    !.Type = row.event_type, !.ID = row.id, !.Source = row.source,
                    !.Producer = row.producer,
                    !.DataContentType = row.data_content_type,
                    !.DataVersion = row.data_version], "", <<>>)
      extras == row.extras
  IN IF extras # NilBytes /\ extras # Text(JNull)
     THEN IF extras.kind = "json" /\ extras.val.j = "obj"
          THEN [err |-> <<>>,
                index |-> [hdr |-> [event EXCEPT !.Extras =
                                      Map([k \in DOMAIN extras.val.o |->
                                             UnmarshalAny(extras.val.o[k])])],
                           key |-> row.index_key]]
          ELSE [err |-> <<"failed to unmarshal extras", "json: cannot unmarshal">>,
                index |-> NoIndex]
     ELSE [err |-> <<>>, index |-> [hdr |-> event, key |-> row.index_key]]

\* rows.Scan of one row and the decoding of its extras (the loop body of ListIndexes).
ScanRow(row) ==
  LET event == HeaderWithNonColumnFields(
                 [emptyHdr EXCEPT
                    !.Subject = row.subject, !.Time = row.event_time,
                    !.Type = row.event_type, !.ID = row.id, !.Source = row.source,
                    !.Producer = row.producer,
                    !.DataContentType = row.data_content_type,
                    !.DataVersion = row.data_version], "", <<>>)
      extras == row.extras
  IN IF extras # NilBytes /\ extras # Text(JNull)
     THEN IF extras.kind = "json" /\ extras.val.j = "obj"
          THEN [err |-> <<>>,
                index |-> [hdr |-> RestoreNonColumnFields(
                                     [event EXCEPT !.Extras =
                                        Map([k \in DOMAIN extras.val.o |->
                                               UnmarshalAny(extras.val.o[k])])]),
                           key |-> row.index_key]]
          ELSE [err |-> <<"failed to unmarshal extras", "json: cannot unmarshal">>,
                index |-> NoIndex]
     ELSE [err |-> <<>>, index |-> [hdr |-> event, key |-> row.index_key]]

\* ListIndexesOn that returns an empty list when there are no rows.
ListIndexesOnEmptyOK(rows, fault) ==
  LET scanned == [i \in 1..Len(rows) |-> ScanRow(rows[i])]
  IN CASE fault = "query" ->
            [NoRet EXCEPT !.err = Wrap("failed to get cloud events", <<"clickhouse: query">>)]
       [] fault = "scan" /\ Len(rows) > 0 ->
            [NoRet EXCEPT !.err = Wrap("failed to scan cloud event", <<"clickhouse: scan">>)]
       [] fault = "iter" ->
            [NoRet EXCEPT !.err = Wrap("failed to iterate over cloud events", <<"clickhouse: rows">>)]
       [] OTHER ->
            [NoRet EXCEPT !.indexes = [i \in 1..Len(rows) |-> scanned[i].index]]

\* Service.ListIndexes once the table has answered the query with rows
\* (fault: "none", or the collaborator step that fails: "query", "scan", "iter").
ListIndexesOn(rows, fault) ==
  LET scanned == [i \in 1..Len(rows) |-> ScanRow(rows[i])]
      bad == {i \in 1..Len(rows) : scanned[i].err # <<>>}
      first == CHOOSE i \in bad : \A j \in bad : i <= j
  IN CASE fault = "query" ->
            [NoRet EXCEPT !.err = Wrap("failed to get cloud events", <<"clickhouse: query">>)]
       [] fault = "scan" /\ Len(rows) > 0 ->
            [NoRet EXCEPT !.err = Wrap("failed to scan cloud event", <<"clickhouse: scan">>)]
       [] fault \notin {"query", "scan"} /\ bad # {} ->
            [NoRet EXCEPT !.err = scanned[first].err]
       [] fault = "iter" /\ bad = {} ->
            [NoRet EXCEPT !.err = Wrap("failed to iterate over cloud events", <<"clickhouse: rows">>)]
       [] OTHER ->
            IF Len(rows) = 0
            THEN [NoRet EXCEPT !.err = Wrap("no cloud events found", <<ErrNoRows>>)]
            ELSE [NoRet EXCEPT !.indexes = [i \in 1..Len(rows) |-> scanned[i].index]]

\* The ORDER BY direction ListIndexes chooses; opts is a *SearchOptions.
OrderOf(opts) == IF opts # Nil /\ opts[1].TimestampAsc THEN " ASC" ELSE " DESC"

\* Service.ListIndexes: every result it may return on the table.
ListIndexes(table, limit, opts, fault) ==
  {ListIndexesOn(rows, fault) :
     rows \in QueryResults(table, QueryMods(opts), OrderOf(opts), limit)}

\* Service.GetLatestIndex: every result it may return on the table. The
\* function assigns false to opts.TimestampAsc, in the options of the caller.
GetLatestIndex(table, opts, fault) ==
  IF opts = Nil THEN {Panic}
  ELSE LET latest == Ptr([opts[1] EXCEPT !.TimestampAsc = FALSE])
       IN {IF r.err # <<>> THEN [NoRet EXCEPT !.err = r.err, !.opts = latest]
           ELSE [NoRet EXCEPT !.index = r.indexes[1], !.opts = latest] :
             r \in ListIndexes(table, 1, latest, fault)}

----------------------------------------------------------------------------
(* Object store access and blob resolution (eventrepo.go).                  *)

\* A fault plan for the object store: the at-th GetObject of the operation fails
\* ("get": GetObject returns an error, "read": reading the body fails); at = 0
\* plans no fault. A key the store does not hold fails in any case.
Fault(at, kind) == [at |-> at, kind |-> kind]
NoFault == Fault(0, "get")

\* toCloudEvent that unwraps whenever the parsed header differs from the zero
\* header in any field.
toCloudEventAnyField(dbHdr, data) ==
  LET event == unmarshalCloudEvent(data, TRUE)
      retData == IF event.err = <<>> /\ event.hdr # emptyHdr
                 THEN event.data ELSE data
  IN [hdr |-> dbHdr, data |-> retData]

\* toCloudEvent that keeps the header embedded in an unwrapped blob.
toCloudEventBlobHeader(dbHdr, data) ==
  LET event == unmarshalCloudEvent(data, TRUE)
      unwrap == event.err = <<>> /\ ~Equals(event.hdr, emptyHdr)
  IN [hdr |-> IF unwrap THEN event.hdr ELSE dbHdr,
      data |-> IF unwrap THEN event.data ELSE data]

\* toCloudEvent
toCloudEvent(dbHdr, data) ==
  LET event == unmarshalCloudEvent(data, TRUE)
      retData == IF event.err = <<>> /\ ~Equals(event.hdr, emptyHdr)
                 THEN event.data ELSE data
  IN [hdr |-> dbHdr, data |-> retData]

\* Service.GetObjectFromKey as the n-th GetObject of an operation.
\* Returns the bytes, the error and the collaborator call.
GetObjectFromKey(store, key, n, fault) ==
  IF (fault.at = n /\ fault.kind = "get") \/ key \notin DOMAIN store
  THEN [obj |-> NilBytes,
        err |-> Wrap("failed to get object from S3",
                     IF key \in DOMAIN store THEN <<"s3: request failed">>
                     ELSE <<"s3: NoSuchKey">>),
        call |-> Call("GetObject", key, FALSE)]
  ELSE IF fault.at = n /\ fault.kind = "read"
  THEN [obj |-> NilBytes,
        err |-> Wrap("failed to read object body", <<"io: read failed">>),
        call |-> Call("GetObject", key, TRUE)]
  ELSE [obj |-> store[key], err |-> <<>>, call |-> Call("GetObject", key, TRUE)]

\* Service.GetCloudEventFromIndex as the n-th GetObject of an operation.
GetCloudEventFromIndex(store, idx, n, fault) ==
  LET got == GetObjectFromKey(store, idx.key, n, fault)
  IN IF got.err # <<>>
     THEN [event |-> NoEvent, err |-> got.err, call |-> got.call]
     ELSE [event |-> toCloudEvent(idx.hdr, got.obj), err |-> <<>>, call |-> got.call]

\* The local variables of the loops of ListCloudEventsFromIndexes and
\* ListObjectsFromKeys: events, the cache objectsByKeys, data (objs), the
\* GetObject calls issued, and the error the loop has ended with (if any).
NoLocals ==
  [events |-> <<>>, objectsByKeys |-> <<>>, objs |-> <<>>, calls |-> <<>>, err |-> <<>>]

\* ListStep without the cache objectsByKeys: every row is fetched.
ListStepRefetch(store, st, idx, fault) ==
  IF st.err # <<>> THEN st
  ELSE LET got == GetCloudEventFromIndex(store, idx, Len(st.calls) + 1, fault)
       IN IF got.err # <<>>
          THEN [st EXCEPT !.calls = Append(@, got.call), !.err = got.err, !.events = <<>>]
          ELSE [st EXCEPT !.events = Append(@, got.event), !.calls = Append(@, got.call)]

\* ListStep that hands out, for a key fetched before, the blob as stored
\* rather than the payload resolved from it.
ListStepCacheRaw(store, st, idx, fault) ==
  IF st.err # <<>> THEN st
  ELSE IF idx.key \in DOMAIN st.objectsByKeys
  THEN [st EXCEPT !.events = Append(@, [hdr |-> idx.hdr, data |-> store[idx.key]])]
  ELSE LET got == GetCloudEventFromIndex(store, idx, Len(st.calls) + 1, fault)
       IN IF got.err # <<>>
          THEN [st EXCEPT !.calls = Append(@, got.call), !.err = got.err, !.events = <<>>]
          ELSE [st EXCEPT
                  !.events = Append(@, got.event),
                  !.objectsByKeys =
                    [k \in DOMAIN st.objectsByKeys \cup {idx.key} |->
                       IF k = idx.key THEN got.event.data ELSE st.objectsByKeys[k]],
                  !.calls = Append(@, got.call)]

\* One iteration of the loop of ListCloudEventsFromIndexes on index row idx,
\* on the object store as it is when the iteration runs.
ListStep(store, st, idx, fault) ==
  IF st.err # <<>> THEN st
  ELSE IF idx.key \in DOMAIN st.objectsByKeys
  THEN [st EXCEPT !.events =
          Append(@, [hdr |-> idx.hdr, data |-> st.objectsByKeys[idx.key]])]
  ELSE LET got == GetCloudEventFromIndex(store, idx, Len(st.calls) + 1, fault)
       IN IF got.err # <<>>
          THEN [st EXCEPT !.calls = Append(@, got.call), !.err = got.err, !.events = <<>>]
          ELSE [st EXCEPT
                  !.events = Append(@, got.event),
                  !.objectsByKeys =
                    [k \in DOMAIN st.objectsByKeys \cup {idx.key} |->
                       IF k = idx.key THEN got.event.data ELSE st.objectsByKeys[k]],
                  !.calls = Append(@, got.call)]

\* The local variables of a call of the operation name with the arguments a
\* that has issued no request yet: where the call is (pc: "" on entry, then the
\* request it waits to issue), the index rows it resolves and the row its loop
\* is at, the variables of the loop, the calls issued before the loop, and,
\* once the call has returned (done), its result.
Frame(name, a) ==
  [op |-> name, arg |-> a, pc |-> "", indexes |-> a.indexes, pos |-> 1,
   st |-> NoLocals, calls |-> <<>>, ret |-> NoRet, done |-> FALSE]

\* The call with local variables f returns r, having issued the calls c.
Returns(f, r, c) == [f EXCEPT !.ret = r, !.calls = c, !.done = TRUE]

\* An iteration that keeps objectsByKeys in the Service, for every call to
\* share.
ListIterationSharedCache(svc, store, frame) ==
  LET shared == IF "objectsByKeys" \in DOMAIN svc THEN svc.objectsByKeys ELSE <<>>
      st == ListStep(store, [frame.st EXCEPT !.objectsByKeys = shared],
                     frame.indexes[frame.pos], frame.arg.fault)
  IN [service |-> [objGetter |-> svc.objGetter, chConn |-> svc.chConn,
                   objectsByKeys |-> st.objectsByKeys],
      frame |-> [frame EXCEPT !.st = st, !.pos = @ + 1]]

\* One iteration of the loop of ListCloudEventsFromIndexes run by a thread on
\* the Service svc: the Service and the local variables afterwards.
ListIteration(svc, store, frame) ==
  [service |-> svc,
   frame |-> [frame EXCEPT
                !.st = ListStep(store, @, frame.indexes[frame.pos], frame.arg.fault),
                !.pos = @ + 1]]

\* The end of an iteration of the loop of ListCloudEventsFromIndexes, r being
\* the Service and the local variables after it: the call returns at an error
\* and after the last row, and goes on otherwise.
ListIterated(r) ==
  IF r.frame.st.err # <<>> \/ r.frame.pos > Len(r.frame.indexes)
  THEN [service |-> r.service,
        frame |-> Returns(r.frame,
                          [NoRet EXCEPT !.err = r.frame.st.err, !.events = r.frame.st.events],
                          r.frame.calls \o r.frame.st.calls)]
  ELSE r

\* Service.ListCloudEventsFromIndexes, from one request to the object store to
\* the next: the call with local variables f runs one iteration of its loop on
\* the object store as it is now, and returns after the last iteration or at
\* the first error. Gives the Service and the local variables afterwards.
ListCloudEventsFromIndexes(svc, store, f) ==
  IF f.pos > Len(f.indexes)
  THEN [service |-> svc,
        frame |-> Returns(f, [NoRet EXCEPT !.events = f.st.events], f.calls \o f.st.calls)]
  ELSE ListIterated(ListIteration(svc, store, f))

\* KeysStep that asks the object store a second time for a key that failed.
KeysStepRetry(store, st, key, fault) ==
  IF st.err # <<>> THEN st
  ELSE LET first == GetObjectFromKey(store, key, Len(st.calls) + 1, fault)
           again == GetObjectFromKey(store, key, Len(st.calls) + 2, fault)
       IN IF first.err = <<>>
          THEN [st EXCEPT !.calls = Append(@, first.call), !.objs = Append(@, first.obj)]
          ELSE IF again.err = <<>>
          THEN [st EXCEPT !.calls = @ \o <<first.call, again.call>>,
                          !.objs = Append(@, again.obj)]
          ELSE [st EXCEPT !.calls = @ \o <<first.call, again.call>>, !.objs = <<>>,
                          !.err = Wrap("failed to get data from key '" \o key \o "'",
                                       again.err)]

\* One iteration of the loop of ListObjectsFromKeys, on the object store as it
\* is when the iteration runs.
KeysStep(store, st, key, fault) ==
  IF st.err # <<>> THEN st
  ELSE LET got == GetObjectFromKey(store, key, Len(st.calls) + 1, fault)
       IN IF got.err # <<>>
          THEN [st EXCEPT !.calls = Append(@, got.call), !.objs = <<>>,
                          !.err = Wrap("failed to get data from key '" \o key \o "'", got.err)]
          ELSE [st EXCEPT !.calls = Append(@, got.call), !.objs = Append(@, got.obj)]

\* The end of an iteration of the loop of ListObjectsFromKeys, g being the
\* local variables after it: the call returns at an error and after the last
\* key, and goes on otherwise.
KeysIterated(g) ==
  IF g.st.err # <<>> \/ g.pos > Len(g.arg.keys)
  THEN Returns(g, [NoRet EXCEPT !.err = g.st.err, !.objs = g.st.objs], g.st.calls)
  ELSE g

\* Service.ListObjectsFromKeys, from one request to the object store to the
\* next: the call with local variables f fetches the key its loop is at from
\* the object store as it is now, and returns after the last key or at the
\* first error. Gives the local variables afterwards.
ListObjectsFromKeys(store, f) ==
  IF f.pos > Len(f.arg.keys)
  THEN Returns(f, [NoRet EXCEPT !.objs = f.st.objs], f.st.calls)
  ELSE KeysIterated([f EXCEPT !.st = KeysStep(store, @, f.arg.keys[f.pos], f.arg.fault),
                              !.pos = @ + 1])

\* The object store after PutObject(key, data).
PutObject(store, key, data) ==
  [k \in DOMAIN store \cup {key} |-> IF k = key THEN data ELSE store[k]]

\* The object store after DeleteObject(key).
DeleteObject(store, key) == [k \in DOMAIN store \ {key} |-> store[k]]

\* StoreObject with the two writes in the other order: the row is inserted
\* first, the blob written second.
StoreObjectInsertFirst(store, table, engine, f) ==
  LET a == f.arg
      key == CloudEventToObjectKey(a.hdr)
      put == Call("PutObject", key, a.putOK)
      execOK == a.execOK /\ engine # ""
      exec == Call("Exec", key, execOK)
  IN IF f.pc = ""
     THEN IF a.hdr = Nil
          THEN [frame |-> Returns(f, Panic, <<>>), objects |-> store, index |-> table]
          ELSE IF ~execOK
          THEN [frame |-> Returns(f, [NoRet EXCEPT !.err =
                            Wrap("failed to store index in ClickHouse", <<"clickhouse: exec">>)],
                                  <<exec>>),
                objects |-> store, index |-> table]
          ELSE [frame |-> [f EXCEPT !.pc = "PutObject", !.calls = <<exec>>],
                objects |-> store,
                index |-> InsertRow(table, CloudEventToSlice(a.hdr))]
     ELSE IF ~a.putOK
          THEN [frame |-> Returns(f, [NoRet EXCEPT !.err =
                            Wrap("failed to store object in S3", <<"s3: request failed">>)],
                                  Append(f.calls, put)),
                objects |-> store, index |-> table]
          ELSE [frame |-> Returns(f, NoRet, Append(f.calls, put)),
                objects |-> PutObject(store, key, a.data), index |-> table]

\* StoreObject that undoes the blob write when the insert fails.
StoreObjectRollback(store, table, engine, f) ==
  LET a == f.arg
      key == CloudEventToObjectKey(a.hdr)
      put == Call("PutObject", key, a.putOK)
      execOK == a.execOK /\ engine # ""
      exec == Call("Exec", key, execOK)
  IN IF f.pc = ""
     THEN IF ~a.putOK
          THEN [frame |-> Returns(f, [NoRet EXCEPT !.err =
                            Wrap("failed to store object in S3", <<"s3: request failed">>)],
                                  <<put>>),
                objects |-> store, index |-> table]
          ELSE IF a.hdr = Nil
          THEN [frame |-> Returns(f, Panic, <<put>>),
                objects |-> PutObject(store, key, a.data), index |-> table]
          ELSE [frame |-> [f EXCEPT !.pc = "Exec", !.calls = <<put>>],
                objects |-> PutObject(store, key, a.data), index |-> table]
     ELSE IF ~execOK
          THEN [frame |-> Returns(f, [NoRet EXCEPT !.err =
                            Wrap("failed to store index in ClickHouse", <<"clickhouse: exec">>)],
                                  f.calls \o <<exec, Call("DeleteObject", key, TRUE)>>),
                objects |-> DeleteObject(store, key), index |-> table]
          ELSE [frame |-> Returns(f, NoRet, Append(f.calls, exec)),
                objects |-> store,
                index |-> InsertRow(table, CloudEventToSlice(a.hdr))]

\* Service.StoreObject, from one request to the next: the call with local
\* variables f issues PutObject and then, in a later step, Exec, each on the
\* stores as they are when it is issued; engine is the engine of the
\* cloud_event table ("" when there is no such table). f.arg.hdr is a
\* *CloudEventHeader; f.arg.putOK and f.arg.execOK tell whether the object
\* store and the index store accept the write. Gives the local variables and
\* both stores afterwards.
StoreObject(store, table, engine, f) ==
  LET a == f.arg
      key == CloudEventToObjectKey(a.hdr)
      put == Call("PutObject", key, a.putOK)
      execOK == a.execOK /\ engine # ""
      exec == Call("Exec", key, execOK)
  IN IF f.pc = ""
     THEN IF ~a.putOK
          THEN [frame |-> Returns(f, [NoRet EXCEPT !.err =
                            Wrap("failed to store object in S3", <<"s3: request failed">>)],
                                  <<put>>),
                objects |-> store, index |-> table]
          ELSE IF a.hdr = Nil
          THEN [frame |-> Returns(f, Panic, <<put>>),
                objects |-> PutObject(store, key, a.data), index |-> table]
          ELSE [frame |-> [f EXCEPT !.pc = "Exec", !.calls = <<put>>],
                objects |-> PutObject(store, key, a.data), index |-> table]
     ELSE IF ~execOK
          THEN [frame |-> Returns(f, [NoRet EXCEPT !.err =
                            Wrap("failed to store index in ClickHouse", <<"clickhouse: exec">>)],
                                  Append(f.calls, exec)),
                objects |-> store, index |-> table]
          ELSE [frame |-> Returns(f, NoRet, Append(f.calls, exec)),
                objects |-> store,
                index |-> InsertRow(table, CloudEventToSlice(a.hdr))]

\* The failure the query of a call meets: the table is missing, or the
\* failure dbFault planned for the call.
QueryFault(engine, dbFault) == IF engine = "" THEN "query" ELSE dbFault

\* Service.ListCloudEvents, from one request to the next: the call with local
\* variables f queries the table as it is now (ListIndexes) and then, in later
\* steps, resolves the rows it got, one iteration of
\* ListCloudEventsFromIndexes in a step. Gives every (Service, local
\* variables) the step may end with.
ListCloudEvents(svc, table, engine, store, f) ==
  IF f.pc = ""
  THEN LET fault == QueryFault(engine, f.arg.dbFault)
           query == Call("Query", "", fault # "query")
       IN {[service |-> svc,
            frame |-> IF r.err # <<>>
                      THEN Returns(f, [NoRet EXCEPT !.err = r.err], <<query>>)
                      ELSE [f EXCEPT !.pc = "GetObject", !.indexes = r.indexes,
                                     !.calls = <<query>>]] :
             r \in ListIndexes(table, f.arg.limit, f.arg.opts, fault)}
  ELSE {ListCloudEventsFromIndexes(svc, store, f)}

\* Service.GetLatestCloudEvent, from one request to the next: the call with
\* local variables f queries the table as it is now (GetLatestIndex) and then,
\* in a later step, fetches the blob of the row it got from the object store as
\* it is then. Gives every local variables the step may end with.
GetLatestCloudEvent(table, engine, store, f) ==
  IF f.pc = ""
  THEN LET fault == QueryFault(engine, f.arg.dbFault)
           query == Call("Query", "", fault # "query")
       IN {IF r.panic THEN Returns(f, Panic, <<>>)
           ELSE IF r.err # <<>>
           THEN Returns(f, [NoRet EXCEPT !.err = r.err, !.opts = r.opts], <<query>>)
           ELSE [f EXCEPT !.pc = "GetObject", !.indexes = <<r.index>>,
                          !.calls = <<query>>, !.ret = r] :
             r \in GetLatestIndex(table, f.arg.opts, fault)}
  ELSE LET got == GetCloudEventFromIndex(store, f.indexes[1], 1, f.arg.fault)
       IN {Returns(f, [NoRet EXCEPT !.err = got.err, !.event = got.event,
                                    !.opts = f.ret.opts],
                   Append(f.calls, got.call))}

----------------------------------------------------------------------------
(* The inputs the model draws from.                                         *)

\* Fault plans for an operation that issues at most n GetObject calls.
Faults(n) == {NoFault} \cup {Fault(at, kind) : at \in 1..n, kind \in {"get", "read"}}

\* Failures of the index store during a query.
DbFaults == {"none", "query", "scan", "iter"}

\* A blob that is a JSON object with a vin member and, when given (non-zero),
\* the members subject (s), time (t) and data (d).
Envelope(s, t, d) ==
  LET names == {"vin"} \cup (IF s # "" THEN {"subject"} ELSE {})
                 \cup (IF t # 0 THEN {"time"} ELSE {}) \cup (IF d # "" THEN {"data"} ELSE {})
  IN Text(JObj([k \in names |->
                  CASE k = "vin" -> JStr("1HGCM82633A123456")
                    [] k = "subject" -> JStr(s)
                    [] k = "time" -> JTime(t)
                    [] k = "data" -> JStr(d)]))

\* Blobs: not JSON, an object whose id is a number, the empty object, and
\* objects with no identity member, with a time below one second, or with a
\* subject, each with and without data.
Blobs ==
  {Junk("x"), Text(JObj([k \in {"id"} |-> JNum(5)])), Text(JObj(<<>>))}
    \cup {Envelope(st[1], st[2], d) :
            st \in {<<"", 0>>, <<"", 500000>>, <<"sa", 0>>}, d \in {"", "d"}}

FetchKeys == {"k1", "k2"}

FetchHeaders ==
  {[emptyHdr EXCEPT !.Subject = s, !.Time = 1000000, !.ID = "i", !.SpecVersion = SpecVersion] :
     s \in {"sa", "sb"}}

FetchIndexes == {[hdr |-> h, key |-> k] : h \in FetchHeaders, k \in FetchKeys}

\* Object stores holding blobs at some of the keys: any blob at k1, a blob
\* that is not JSON or an envelope with a subject and data at k2.
FetchStores ==
  {st \in UNION {[K -> Blobs] : K \in SUBSET FetchKeys} :
     "k2" \in DOMAIN st => st["k2"] \in {Junk("x"), Envelope("sa", 0, "d")}}

\* Headers handed to StoreObject: one subject at times within and across
\* seconds, one header of another subject, and two headers whose Type and
\* Source differ in where a colon falls.
StoreHeaders ==
  {[emptyHdr EXCEPT !.Subject = "sa", !.Time = t, !.DataVersion = "v", !.Extras = e] :
     t \in {1000000, 1500000, 2000000},
     e \in {NilMap, Map([k \in {"extra1"} |-> GStr("value1")])}}
    \cup {[emptyHdr EXCEPT !.Subject = "sb", !.Time = 3000000, !.DataVersion = "v"]}
    \cup {[emptyHdr EXCEPT !.Subject = "sa", !.Time = 1000000, !.DataVersion = "v",
                           !.Type = ts[1], !.Source = ts[2]] :
            ts \in {<<"t", "s:s">>, <<"t:s", "s">>}}

\* The options that select the stored headers by Subject and DataVersion.
StoredOptions == Ptr([NoOptions EXCEPT !.Subject = Ptr("sa"), !.DataVersion = Ptr("v")])

StorePayloads == {Text(JStr("p1")), Text(JStr("p2"))}

\* Rows of the query model: two variants that differ in every filterable
\* column, each at two times; the variants share the time 2000000.
QueryHeader(v, t) ==
  [emptyHdr EXCEPT
     !.Subject = <<"sa", "sb">>[v], !.Time = t, !.Type = <<"t", "t:s">>[v],
     !.ID = <<"i", "j">>[v], !.Source = <<"s", "s:s">>[v], !.Producer = <<"p", "q">>[v],
     !.DataVersion = <<"v", "w">>[v],
     !.Extras = <<NilMap, Map([k \in {"extra1"} |-> GStr("value1")])>>[v]]

QueryHeaders ==
  {QueryHeader(1, 1000000), QueryHeader(1, 2000000),
   QueryHeader(2, 2000000), QueryHeader(2, 3000000)}

QueryRows == {CloudEventToSlice(Ptr(h)) : h \in QueryHeaders}

\* Tables of rows with pairwise different sorting keys.
QueryTables ==
  {tb \in SeqsUpTo(QueryRows, MaxRows) :
     \A a, b \in 1..Len(tb) : a # b => OrderByKey(tb[a]) # OrderByKey(tb[b])}

\* The object store that holds one blob for every row of the table.
BlobsOf(tb) ==
  [k \in {tb[i].index_key : i \in 1..Len(tb)} |-> Text(JStr(k))]

\* The value tried for each predicate a SearchOptions can set.
PredValue ==
  [ID |-> Ptr("i"), After |-> 1000000, Before |-> 3000000, Type |-> Ptr("t"),
   DataVersion |-> Ptr("w"), Subject |-> Ptr("sa"), Source |-> Ptr("s:s"),
   Producer |-> Ptr("p"),
   Extras |-> Ptr(Text(JObj([k \in {"extra1"} |-> JStr("value1")])))]

\* The options that set exactly the predicates in P.
OptionsSetting(P, asc) ==
  [f \in DOMAIN NoOptions |->
     IF f \in P THEN PredValue[f]
     ELSE IF f = "TimestampAsc" THEN asc ELSE NoOptions[f]]

\* Options with a time bound that falls within a second.
SubSecondOptions ==
  {Ptr([NoOptions EXCEPT !.After = 1500000, !.TimestampAsc = asc]) : asc \in BOOLEAN}
    \cup {Ptr([NoOptions EXCEPT !.Before = 2500000, !.TimestampAsc = asc]) : asc \in BOOLEAN}

\* The *SearchOptions tried: nil, options with at most MaxPreds predicates
\* set, in either order, and the options with a time bound within a second.
QueryOptions ==
  {Nil} \cup SubSecondOptions \cup
  {Ptr(OptionsSetting(P, asc)) :
     P \in {Q \in SUBSET DOMAIN PredValue : Cardinality(Q) <= MaxPreds}, asc \in BOOLEAN}

\* Failures of the index store are tried with the options of at most one predicate.
DbFaultsFor(opts) == IF Len(QueryMods(opts)) <= 1 THEN DbFaults ELSE {"none"}

----------------------------------------------------------------------------
(* The state machine. The operations are called by threads; a call that     *)
(* issues several requests to the stores runs one request in a step, on the *)
(* stores as they are at that step, and the calls of other threads, the     *)
(* merges and the migrations run between its steps. The result of a call is *)
(* shown when it returns, until the caller has taken it.                    *)

\* The arguments of an operation; an operation fills in the ones it takes.
NoArg ==
  [hdr |-> Nil, data |-> NilBytes, indexes |-> <<>>, keys |-> <<>>, limit |-> 0,
   opts |-> Nil, fault |-> NoFault, dbFault |-> "none", putOK |-> TRUE, execOK |-> TRUE,
   gooseArgs |-> <<>>]

\* No operation has returned since the caller took the last result.
Idle == op = ""

\* eventrepo.New(chConn, objGetter): the fields of the Service.
New == [objGetter |-> "objGetter", chConn |-> "chConn"]

\* The threads that call the Service at the same time.
Threads == {"t1", "t2"}

\* The thread of the specifications in which one caller runs one operation
\* after the other.
Caller == "t1"

\* No thread is in a call.
NoThreads == [t \in Threads |-> Nil]

\* The operation name(a) returns r, having issued the calls c.
Shows(name, a, r, c) == op' = name /\ arg' = a /\ ret' = r /\ calls' = c

\* The operation name(a), which touches no store and no thread, ran: it
\* returned r and issued the calls c.
Ran(name, a, r, c) ==
  /\ Shows(name, a, r, c)
  /\ UNCHANGED <<service, threads, db>>

\* Thread t enters the operation name with the arguments a.
Enter(t, name, a) ==
  /\ Idle
  /\ threads[t] = Nil
  /\ threads' = [threads EXCEPT ![t] = Ptr(Frame(name, a))]
  /\ UNCHANGED <<objects, index, op, arg, calls, ret, service, db>>

\* Thread t is in a call of the operation name and runs its next step.
Runs(t, name) == Idle /\ threads[t] # Nil /\ threads[t][1].op = name

\* The step of thread t ends with the local variables f: the call goes on, or,
\* when it has returned, its result is shown and the thread is free again.
Continue(t, f) ==
  /\ threads' = [threads EXCEPT ![t] = IF f.done THEN Nil ELSE Ptr(f)]
  /\ IF f.done THEN Shows(f.op, f.arg, f.ret, f.calls)
     ELSE UNCHANGED <<op, arg, calls, ret>>

\* The caller takes the result of the last operation.
Return ==
  /\ ~Idle
  /\ op' = "" /\ arg' = NoArg /\ ret' = NoRet /\ calls' = <<>>
  /\ UNCHANGED <<objects, index, service, threads, db>>

\* The calls of StoreObject that have not returned.
Storing == {t \in Threads : threads[t] # Nil /\ threads[t][1].op = "StoreObject"}

\* Thread t calls s.StoreObject(ctx, bucket, cloudHeader, data).
CallStoreObject(t, cloudHeader, data, putOK, execOK) ==
  /\ Len(index) + Cardinality(Storing) < MaxRows
  /\ Enter(t, "StoreObject",
           [NoArg EXCEPT !.hdr = cloudHeader, !.data = data, !.putOK = putOK,
                         !.execOK = execOK])

\* The call of StoreObject of thread t issues its next request: PutObject,
\* then Exec, after which it returns.
StepStoreObject(t) ==
  /\ Runs(t, "StoreObject")
  /\ \E r \in {StoreObject(objects, index, db.engine, threads[t][1])} :
       /\ objects' = r.objects
       /\ index' = r.index
       /\ Continue(t, r.frame)
  /\ UNCHANGED <<service, db>>

\* A background merge of the cloud_event table, when its engine is
\* ReplacingMergeTree.
Merge ==
  /\ Idle
  /\ db.engine = ReplacingMergeTree
  /\ Merged(index) # index
  /\ index' = Merged(index)
  /\ UNCHANGED <<objects, op, arg, calls, ret, service, threads, db>>

\* migrations.RunGoose(ctx, gooseArgs, db) is called with goose up or goose
\* down, while no other call of it runs; goose down is called while a
\* migration of the cloud_event table is applied (the migrations of the other
\* tables are not modelled).
CallRunGoose(cmd) ==
  /\ Idle
  /\ db.goose = Nil
  /\ cmd = "down" => db.applied > 0
  /\ db' = [db EXCEPT !.goose = Ptr(Goose(cmd, db.applied))]
  /\ UNCHANGED <<objects, index, op, arg, calls, ret, service, threads>>

\* The call of RunGoose runs the next statement of its migrations, and
\* returns after the last one or at a statement that fails.
StepRunGoose ==
  /\ Idle
  /\ db.goose # Nil
  /\ LET r == RunGoose(db, index)
     IN /\ index' = r.index
        /\ db' = r.db
        /\ IF r.done
           THEN Shows("RunGoose", [NoArg EXCEPT !.gooseArgs = <<db.goose[1].cmd>>],
                      [NoRet EXCEPT !.err = r.err], <<>>)
           ELSE UNCHANGED <<op, arg, calls, ret>>
  /\ UNCHANGED <<objects, service, threads>>

\* Thread t calls s.ListIndexes(ctx, limit, opts).
CallListIndexes(t, limit, opts, dbFault) ==
  /\ Idle
  /\ threads[t] = Nil
  /\ LET fault == QueryFault(db.engine, dbFault)
     IN \E r \in ListIndexes(index, limit, opts, fault) :
          Ran("ListIndexes", [NoArg EXCEPT !.limit = limit, !.opts = opts, !.dbFault = dbFault],
              r, <<Call("Query", "", fault # "query")>>)
  /\ UNCHANGED <<objects, index>>

\* Thread t calls s.GetLatestIndex(ctx, opts).
CallGetLatestIndex(t, opts, dbFault) ==
  /\ Idle
  /\ threads[t] = Nil
  /\ LET fault == QueryFault(db.engine, dbFault)
     IN \E r \in GetLatestIndex(index, opts, fault) :
          Ran("GetLatestIndex", [NoArg EXCEPT !.opts = opts, !.dbFault = dbFault],
              r, IF r.panic THEN <<>> ELSE <<Call("Query", "", fault # "query")>>)
  /\ UNCHANGED <<objects, index>>

\* Thread t calls s.ListCloudEvents(ctx, bucketName, limit, opts).
CallListCloudEvents(t, limit, opts, dbFault, fault) ==
  /\ threads[t] = Nil
  /\ Enter(t, "ListCloudEvents",
           [NoArg EXCEPT !.limit = limit, !.opts = opts, !.dbFault = dbFault, !.fault = fault])

\* The call of ListCloudEvents of thread t issues its next request: the
\* query, then a GetObject for each iteration over the rows it got.
StepListCloudEvents(t) ==
  /\ Runs(t, "ListCloudEvents")
  /\ \E r \in ListCloudEvents(service, index, db.engine, objects, threads[t][1]) :
       /\ service' = r.service
       /\ Continue(t, r.frame)
  /\ UNCHANGED <<objects, index, db>>

\* Thread t calls s.GetLatestCloudEvent(ctx, bucketName, opts).
CallGetLatestCloudEvent(t, opts, dbFault, fault) ==
  /\ threads[t] = Nil
  /\ Enter(t, "GetLatestCloudEvent",
           [NoArg EXCEPT !.opts = opts, !.dbFault = dbFault, !.fault = fault])

\* The call of GetLatestCloudEvent of thread t issues its next request: the
\* query, then the GetObject.
StepGetLatestCloudEvent(t) ==
  /\ Runs(t, "GetLatestCloudEvent")
  /\ \E f \in GetLatestCloudEvent(index, db.engine, objects, threads[t][1]) :
       Continue(t, f)
  /\ UNCHANGED <<objects, index, service, db>>

\* Thread t calls s.GetObjectFromKey(ctx, key, bucketName).
CallGetObjectFromKey(t, key, fault) ==
  LET got == GetObjectFromKey(objects, key, 1, fault)
  IN /\ Idle
     /\ threads[t] = Nil
     /\ Ran("GetObjectFromKey", [NoArg EXCEPT !.keys = <<key>>, !.fault = fault],
            [NoRet EXCEPT !.err = got.err, !.obj = got.obj], <<got.call>>)
     /\ UNCHANGED <<objects, index>>

\* Thread t calls s.ListObjectsFromKeys(ctx, bucketName, keys).
CallListObjectsFromKeys(t, keys, fault) ==
  /\ threads[t] = Nil
  /\ Enter(t, "ListObjectsFromKeys", [NoArg EXCEPT !.keys = keys, !.fault = fault])


\* The call of ListObjectsFromKeys of thread t issues its next GetObject.
StepListObjectsFromKeys(t) ==
  /\ Runs(t, "ListObjectsFromKeys")
  /\ \E f \in {ListObjectsFromKeys(objects, threads[t][1])} : Continue(t, f)
  /\ UNCHANGED <<objects, index, service, db>>

\* Thread t calls s.GetCloudEventFromIndex(ctx, index, bucketName).
CallGetCloudEventFromIndex(t, idx, fault) ==
  LET got == GetCloudEventFromIndex(objects, idx, 1, fault)
  IN /\ Idle
     /\ threads[t] = Nil
     /\ Ran("GetCloudEventFromIndex", [NoArg EXCEPT !.indexes = <<idx>>, !.fault = fault],
            [NoRet EXCEPT !.err = got.err, !.event = got.event], <<got.call>>)
     /\ UNCHANGED <<objects, index>>

\* Thread t calls s.ListCloudEventsFromIndexes(ctx, indexes, bucketName).
CallListCloudEventsFromIndexes(t, indexes, fault) ==
  /\ threads[t] = Nil
  /\ Enter(t, "ListCloudEventsFromIndexes",
           [NoArg EXCEPT !.indexes = indexes, !.fault = fault])

\* The call of ListCloudEventsFromIndexes of thread t runs the next iteration
\* of its loop.
StepListCloudEventsFromIndexes(t) ==
  /\ Runs(t, "ListCloudEventsFromIndexes")
  /\ \E r \in {ListCloudEventsFromIndexes(service, objects, threads[t][1])} :
       /\ service' = r.service
       /\ Continue(t, r.frame)
  /\ UNCHANGED <<objects, index, db>>

----------------------------------------------------------------------------
(* Specification of the store life cycle: events are stored, the table is   *)
(* merged, the latest event is read back and the index is queried, by one   *)
(* caller; a merge may run between the requests of a call.                  *)

\* eventrepo.New: a service on empty stores and a migrated database.
Init ==
  /\ objects = <<>>
  /\ index = <<>>
  /\ op = "" /\ arg = NoArg /\ calls = <<>> /\ ret = NoRet
  /\ service = New /\ threads = NoThreads
  /\ db = Migrated

Next ==
  \/ \E h \in StoreHeaders, d \in StorePayloads, putOK \in BOOLEAN, execOK \in BOOLEAN :
       CallStoreObject(Caller, Ptr(h), d, putOK, execOK)
  \/ StepStoreObject(Caller)
  \/ Merge
  \/ CallGetLatestCloudEvent(Caller, Ptr(NoOptions), "none", NoFault)
  \/ StepGetLatestCloudEvent(Caller)
  \/ \E limit \in 1..MaxLimit : CallListIndexes(Caller, limit, StoredOptions, "none")
  \/ CallGetLatestIndex(Caller, StoredOptions, "none")
  \/ Return

Spec == Init /\ [][Next]_vars

(* Specification of blob resolution: a service on an object store that      *)
(* already holds blobs resolves keys and index rows.                        *)

InitFetch ==
  /\ objects \in FetchStores
  /\ index = <<>>
  /\ op = "" /\ arg = NoArg /\ calls = <<>> /\ ret = NoRet
  /\ service = New /\ threads = NoThreads
  /\ db = Migrated

\* The distinct object keys of a list of index rows.
KeysOf(indexes) == {indexes[i].key : i \in 1..Len(indexes)}

NextFetch ==
  \/ \E key \in FetchKeys, f \in Faults(1) : CallGetObjectFromKey(Caller, key, f)
  \/ \E keys \in SeqsUpTo(FetchKeys, MaxIndexes) : \E f \in Faults(Len(keys)) :
       CallListObjectsFromKeys(Caller, keys, f)
  \/ StepListObjectsFromKeys(Caller)
  \/ \E idx \in FetchIndexes, f \in Faults(1) : CallGetCloudEventFromIndex(Caller, idx, f)
  \/ \E indexes \in SeqsUpTo(FetchIndexes, MaxIndexes) :
       \E f \in Faults(Cardinality(KeysOf(indexes))) :
         CallListCloudEventsFromIndexes(Caller, indexes, f)
  \/ StepListCloudEventsFromIndexes(Caller)
  \/ Return

SpecFetch == InitFetch /\ [][NextFetch]_vars

(* Specification of the queries: a service on a table that already holds    *)
(* rows, and on the blobs of these rows, is searched.                       *)

InitQuery ==
  /\ index \in QueryTables
  /\ objects = BlobsOf(index)
  /\ op = "" /\ arg = NoArg /\ calls = <<>> /\ ret = NoRet
  /\ service = New /\ threads = NoThreads
  /\ db = Migrated

NextQuery ==
  \/ \E limit \in 1..MaxLimit, o \in QueryOptions : \E f \in DbFaultsFor(o) :
       CallListIndexes(Caller, limit, o, f)
  \/ \E o \in QueryOptions : \E f \in DbFaultsFor(o) : CallGetLatestIndex(Caller, o, f)
  \/ \E limit \in 1..MaxLimit, o \in QueryOptions : \E f \in DbFaultsFor(o) :
       \E g \in (IF f = "none" /\ Len(QueryMods(o)) = 0 THEN Faults(limit) ELSE {NoFault}) :
         CallListCloudEvents(Caller, limit, o, f, g)
  \/ StepListCloudEvents(Caller)
  \/ \E o \in QueryOptions : \E f \in DbFaultsFor(o) :
       \E g \in (IF f = "none" /\ Len(QueryMods(o)) = 0 THEN Faults(1) ELSE {NoFault}) :
         CallGetLatestCloudEvent(Caller, o, f, g)
  \/ StepGetLatestCloudEvent(Caller)
  \/ Return

SpecQuery == InitQuery /\ [][NextQuery]_vars

(* Specification of the migrations: events of one identity are stored and   *)
(* listed while the table is merged and goose up and goose down run.        *)

\* Two headers of one identity that differ in Extras.
MigrateHeaders ==
  {[emptyHdr EXCEPT !.Subject = "sa", !.Time = 1000000, !.DataVersion = "v", !.Extras = e] :
     e \in {NilMap, Map([k \in {"extra1"} |-> GStr("value1")])}}

NextMigrate ==
  \/ \E h \in MigrateHeaders, execOK \in BOOLEAN :
       CallStoreObject(Caller, Ptr(h), Text(JStr("p1")), TRUE, execOK)
  \/ StepStoreObject(Caller)
  \/ Merge
  \/ \E cmd \in {"up", "down"} : CallRunGoose(cmd)
  \/ StepRunGoose
  \/ \E limit \in 1..MaxLimit : CallListIndexes(Caller, limit, StoredOptions, "none")
  \/ Return

SpecMigrate == Init /\ [][NextMigrate]_vars

(* Specification of the object key: the key of a header is derived.         *)

\* Headers over every identity field, with times within one millisecond,
\* within one second and across seconds.
KeyHeaders ==
  {[emptyHdr EXCEPT !.Subject = s, !.Time = t, !.Type = ty, !.Source = so, !.ID = id] :
     s \in {"", "sa", "sb"}, t \in {0, 1000000, 1000500, 1500000, 2000000},
     ty \in {"", "t", "t:s"}, so \in {"", "s", "s:s"}, id \in {"", "i", "j"}}

\* What CloudEventToObjectKey returns.
KeyRet(k) == [key |-> k]

\* CloudEventToObjectKey(event)
CallCloudEventToObjectKey(event) ==
  /\ Idle
  /\ Ran("CloudEventToObjectKey", [NoArg EXCEPT !.hdr = event],
         KeyRet(CloudEventToObjectKey(event)), <<>>)
  /\ UNCHANGED <<objects, index>>

NextKey ==
  \/ \E event \in {Nil} \cup {Ptr(h) : h \in KeyHeaders} : CallCloudEventToObjectKey(event)
  \/ Return

SpecKey == Init /\ [][NextKey]_vars

(* Specification of the row round trip: a header is turned into a row, and  *)
(* stored and listed on an empty table.                                     *)

\* The values tried in Extras under each key: of the type restoration accepts
\* and of another type.
ExtrasValues ==
  [specversion |-> {GStr("0.3"), GInt(123)},
   dataschema |-> {GStr("schema2"), GList(<<>>)},
   signature |-> {GStr("sig2"), GInt(7)},
   tags |-> {GList(<<GStr("tag3")>>), GStr("not-a-slice"), GList(<<GStr("tag3"), GInt(5)>>)},
   extra1 |-> {GStr("value1"), GMap([a |-> GStr("b")])}]

\* The Extras maps tried: nil, and the maps that hold, under each key, one of
\* its values or nothing (GNil stands for a key left out).
ExtrasMaps ==
  {NilMap} \cup
  {Map([k \in {n \in DOMAIN ExtrasValues : pick[n] # GNil} |-> pick[k]]) :
     pick \in [specversion : ExtrasValues.specversion \cup {GNil},
               dataschema : ExtrasValues.dataschema \cup {GNil},
               signature : ExtrasValues.signature \cup {GNil},
               tags : ExtrasValues.tags \cup {GNil},
               extra1 : ExtrasValues.extra1 \cup {GNil}]}

\* Headers with and without each field that has no column, over the Extras
\* maps, and a header whose time falls within a second.
RowHeaders ==
  {HeaderWithNonColumnFields(
     [emptyHdr EXCEPT
        !.Subject = "sa", !.Time = 1500000, !.ID = "i", !.Producer = "p",
        !.DataVersion = "v"], "", <<>>)}
    \cup
  {HeaderWithNonColumnFields(
     [emptyHdr EXCEPT
        !.Subject = "sa", !.Time = 1000000, !.ID = "i", !.Producer = "p",
        !.DataVersion = "v", !.SpecVersion = sv, !.DataSchema = ds, !.Extras = e],
     sig, tags) :
     sv \in {"", SpecVersion}, ds \in {"", "schema"}, sig \in {"", "sig"},
     tags \in {<<>>, <<"tag1", "tag2">>},
     e \in ExtrasMaps}

\* What CloudEventToSlice returns and the caller's header afterwards.
RowRet(row, hdr) == [row |-> row, hdr |-> hdr]

\* What AddNonColumnFieldsToExtras returns and the caller's header afterwards.
ExtrasRet(extras, hdr) == [extras |-> extras, hdr |-> hdr]

\* CloudEventToSlice(event). The body of CloudEventToSliceWithKey holds no
\* assignment through event, so the caller's header after the call is the
\* header event points to.
CallCloudEventToSlice(event) ==
  /\ Idle
  /\ Ran("CloudEventToSlice", [NoArg EXCEPT !.hdr = event],
         RowRet(CloudEventToSlice(event), event[1]), <<>>)
  /\ UNCHANGED <<objects, index>>

\* AddNonColumnFieldsToExtras(event)
CallAddNonColumnFieldsToExtras(event) ==
  LET r == AddNonColumnFieldsToExtras(event[1])
  IN /\ Idle
     /\ Ran("AddNonColumnFieldsToExtras", [NoArg EXCEPT !.hdr = event],
            ExtrasRet(r.extras, r.event), <<>>)
     /\ UNCHANGED <<objects, index>>

\* Nothing is stored and the caller is in no call.
Fresh == index = <<>> /\ objects = <<>> /\ threads[Caller] = Nil

NextRow ==
  \/ Fresh /\ \E h \in RowHeaders : CallCloudEventToSlice(Ptr(h))
  \/ Fresh /\ \E h \in RowHeaders : CallAddNonColumnFieldsToExtras(Ptr(h))
  \/ Fresh /\ \E h \in RowHeaders :
       CallStoreObject(Caller, Ptr(h), Text(JStr("p1")), TRUE, TRUE)
  \/ StepStoreObject(Caller)
  \/ CallListIndexes(Caller, 1, StoredOptions, "none")
  \/ Return

SpecRow == Init /\ [][NextRow]_vars

(* Specification of the wire round trip: a header is marshalled and the     *)
(* bytes are unmarshalled.                                                  *)

\* Headers over the named fields, with nil Extras, with every map of strings
\* on the keys of the wire model, and with a map and a list of lists as the
\* value of an entry.
WireHeaders ==
  {[emptyHdr EXCEPT
      !.ID = id, !.Source = "s", !.Subject = "sa", !.Time = t, !.Type = "t",
      !.SpecVersion = sv, !.DataContentType = ct, !.Extras = e] :
     id \in {"", "i"}, t \in {0, 1000000, 1500000}, sv \in {"", SpecVersion},
     ct \in {"", "application/json"},
     e \in {NilMap} \cup {Map([k \in K |-> GStr("value1")]) : K \in SUBSET WireKeys}
           \cup {Map([k \in {"extra1"} |-> v]) :
                   v \in {GMap([a |-> GStr("b")]), GList(<<GList(<<GStr("x")>>)>>)}}}

\* What MarshalJSON and UnmarshalJSON return.
BytesRet(r) == [data |-> r.data, err |-> r.err]
HeaderRet(r) == [hdr |-> r.hdr, err |-> r.err]

\* c.MarshalJSON()
CallMarshalJSON(c) ==
  /\ Idle
  /\ Ran("MarshalJSON", [NoArg EXCEPT !.hdr = Ptr(c)], BytesRet(MarshalJSON(c)), <<>>)
  /\ UNCHANGED <<objects, index>>

\* c.UnmarshalJSON(data), for the bytes MarshalJSON has just returned.
CallUnmarshalJSON ==
  /\ op = "MarshalJSON" /\ ret.err = <<>>
  /\ Ran("UnmarshalJSON", [arg EXCEPT !.data = ret.data], HeaderRet(UnmarshalJSON(ret.data)), <<>>)
  /\ UNCHANGED <<objects, index>>

\* Wire documents: bytes that are no JSON, JSON that is no object, an object
\* whose id is a number, objects whose member names differ from a field's
\* name in case only, an object with an object as a member, and the objects
\* with some of the members id, specversion, data, extra1 and signature (GNil
\* stands for a member left out).
WireDocs ==
  {Junk("x"), Text(JNull), Text(JStr("q")), Text(JObj([k \in {"id"} |-> JNum(5)])),
   Text(JObj([ID |-> JStr("x")])), Text(JObj([ID |-> JNum(5)])),
   Text(JObj([Id |-> JStr("x"), extra1 |-> JStr("value1")])),
   Text(JObj([SPECVERSION |-> JStr("0.3"), Subject |-> JStr("sa"), data |-> JStr("d")])),
   Text(JObj([id |-> JStr("i"), Data |-> JStr("d")])),
   Text(JObj([extra1 |-> JObj([a |-> JArr(<<JArr(<<JStr("x")>>)>>)])]))}
    \cup
  {Text(JObj([k \in {n \in {"id", "specversion", "data", "extra1", "signature"} :
                       pick[n] # GNil} |-> pick[k]])) :
     pick \in [id : {GNil, JStr("i")},
               specversion : {GNil, JStr("0.3"), JStr(SpecVersion), JNull},
               data : {GNil, JStr("d")},
               extra1 : {GNil, JStr("value1")},
               signature : {GNil, JStr("sig")}]}

\* event.MarshalJSON() for event a CloudEvent with header c and payload d
CallMarshalEventJSON(c, d) ==
  /\ Idle
  /\ Ran("CloudEvent.MarshalJSON", [NoArg EXCEPT !.hdr = Ptr(c), !.data = Text(d)],
         BytesRet(MarshalEventJSON(c, d)), <<>>)
  /\ UNCHANGED <<objects, index>>

\* c.UnmarshalJSON(data) for c a CloudEventHeader and a wire document
CallHeaderUnmarshalJSON(data) ==
  /\ Idle
  /\ Ran("CloudEventHeader.UnmarshalJSON", [NoArg EXCEPT !.data = data],
         unmarshalCloudEvent(data, FALSE), <<>>)
  /\ UNCHANGED <<objects, index>>

\* event.UnmarshalJSON(data) for event a CloudEvent and a wire document
CallEventUnmarshalJSON(data) ==
  /\ Idle
  /\ Ran("CloudEvent.UnmarshalJSON", [NoArg EXCEPT !.data = data],
         UnmarshalEventJSON(data), <<>>)
  /\ UNCHANGED <<objects, index>>

NextWire ==
  \/ \E c \in WireHeaders : CallMarshalEventJSON(c, JStr("p1"))
  \/ \E data \in WireDocs : CallHeaderUnmarshalJSON(data)
  \/ \E data \in WireDocs : CallEventUnmarshalJSON(data)
  \/ \E c \in WireHeaders : CallMarshalJSON(c)
  \/ CallUnmarshalJSON
  \/ Return

SpecWire == Init /\ [][NextWire]_vars


(* Specification of the DID decoders: each is called with a string, and     *)
(* String() with an ERC721 DID.                                             *)

\* a \o ":" \o b
Colon(a, b) == a \o <<":">> \o b

\* The first, second, third and last parts tried, and the fourth parts: an
\* address in three spellings, a malformed one, and address_token pairs.
DIDPrefixes == {<<"did">>, <<"invalidprefix">>}
DIDMethods == {<<ERC721DIDMethod>>, <<"nft">>, <<EthrDIDMethod>>, <<ERC20DIDMethod>>,
               <<"invalid">>}
DIDChains == {<<"137">>, <<"0">>, <<"007">>, <<"-1">>}
DIDTokens == {<<"123">>, <<"0">>, <<"-123">>, <<"-0">>, <<"+5">>, <<"notanumber">>}
DIDAddresses ==
  {<<"0xbA5738a18d83D41847dfFbDC6101d37C69c9B0cF">>,
   <<"0xba5738a18d83d41847dffbdc6101d37c69c9b0cf">>,
   <<"bA5738a18d83D41847dfFbDC6101d37C69c9B0cF">>,
   <<"0xbA5738">>}
    \cup
  {<<a, "_", t>> : a \in {"0xbA5738a18d83D41847dfFbDC6101d37C69c9B0cF", "0xbA5738"},
                   t \in {"123", "-123", "notanumber"}}
    \cup
  {<<"0xbA5738a18d83D41847dfFbDC6101d37C69c9B0cF", "_", "123", "_", "1">>}

\* The strings tried: of three, four and five parts, and one of six.
DIDStrings ==
  {Colon(Colon(p, m), c) : p \in DIDPrefixes, m \in DIDMethods, c \in {<<"1">>}}
    \cup
  {Colon(Colon(Colon(p, m), c), a) :
     p \in DIDPrefixes, m \in DIDMethods, c \in DIDChains, a \in DIDAddresses}
    \cup
  {Colon(Colon(Colon(Colon(p, m), c), a), t) :
     p \in DIDPrefixes, m \in DIDMethods, c \in DIDChains, a \in DIDAddresses,
     t \in DIDTokens}
    \cup
  {<<"did", ":", "erc721", ":", "1", ":", "0xbA5738a18d83D41847dfFbDC6101d37C69c9B0cF",
     ":", "1", ":", "1">>}

\* The ERC721 DID values String() is tried on.
DIDValues ==
  [ChainID : {0, 1, 137}, ContractAddress : {addrZero, addrA, addrB},
   TokenID : {Nil, Ptr(0), Ptr(123)}]

DIDRet(r) == [did |-> r.did, err |-> r.err]

StringRet(s) == [str |-> s]

\* DecodeERC721DID(did)
CallDecodeERC721DID(did) ==
  /\ Idle
  /\ Ran("DecodeERC721DID", [NoArg EXCEPT !.data = did], DIDRet(DecodeERC721DID(did)), <<>>)
  /\ UNCHANGED <<objects, index>>

\* DecodeLegacyNFTDID(did)
CallDecodeLegacyNFTDID(did) ==
  /\ Idle
  /\ Ran("DecodeLegacyNFTDID", [NoArg EXCEPT !.data = did],
         DIDRet(DecodeLegacyNFTDID(did)), <<>>)
  /\ UNCHANGED <<objects, index>>

\* DecodeEthrDID(did)
CallDecodeEthrDID(did) ==
  /\ Idle
  /\ Ran("DecodeEthrDID", [NoArg EXCEPT !.data = did], DIDRet(DecodeEthrDID(did)), <<>>)
  /\ UNCHANGED <<objects, index>>

\* DecodeERC20DID(did)
CallDecodeERC20DID(did) ==
  /\ Idle
  /\ Ran("DecodeERC20DID", [NoArg EXCEPT !.data = did], DIDRet(DecodeERC20DID(did)), <<>>)
  /\ UNCHANGED <<objects, index>>

\* e.String() for e an ERC721DID
CallERC721DIDString(e) ==
  /\ Idle
  /\ Ran("ERC721DID.String", [NoArg EXCEPT !.hdr = Ptr(e)], StringRet(ERC721DIDString(e)),
         <<>>)
  /\ UNCHANGED <<objects, index>>

NextDID ==
  \/ \E did \in DIDStrings : CallDecodeERC721DID(did)
  \/ \E did \in DIDStrings : CallDecodeLegacyNFTDID(did)
  \/ \E did \in DIDStrings : CallDecodeEthrDID(did)
  \/ \E did \in DIDStrings : CallDecodeERC20DID(did)
  \/ \E e \in DIDValues : CallERC721DIDString(e)
  \/ Return

SpecDID == Init /\ [][NextDID]_vars


(* Specification of concurrent calls: two threads store, list and read      *)
(* events on one Service, each call issuing one request at a time.          *)

\* The headers the threads store, with different object keys.
ConcHeaders ==
  {[emptyHdr EXCEPT !.Subject = "sa", !.Time = 1000000, !.DataVersion = "v"],
   [emptyHdr EXCEPT !.Subject = "sb", !.Time = 3000000, !.DataVersion = "v"]}

\* The index row of a header, as ListIndexes returns it.
IndexOf(h) == ScanRow(CloudEventToSlice(Ptr(h))).index

\* The lists of index rows the threads pass: over one and over two keys.
ConcLists ==
  LET a == IndexOf([emptyHdr EXCEPT !.Subject = "sa", !.Time = 1000000, !.DataVersion = "v"])
      b == IndexOf([emptyHdr EXCEPT !.Subject = "sb", !.Time = 3000000, !.DataVersion = "v"])
  IN {<<a, b>>, <<b, a, b>>}

\* The keys of a list of index rows, in order.
KeyList(indexes) == [i \in 1..Len(indexes) |-> indexes[i].key]

\* The options that select the headers the threads store.
ConcOptions == Ptr([NoOptions EXCEPT !.DataVersion = Ptr("v")])

NextConc ==
  \/ \E t \in Threads, h \in ConcHeaders, d \in StorePayloads :
       \E putOK \in BOOLEAN, execOK \in BOOLEAN :
         CallStoreObject(t, Ptr(h), d, putOK, execOK)
  \/ \E t \in Threads : StepStoreObject(t)
  \/ \E t \in Threads, indexes \in ConcLists :
       CallListCloudEventsFromIndexes(t, indexes, NoFault)
  \/ \E t \in Threads : StepListCloudEventsFromIndexes(t)
  \/ \E t \in Threads, indexes \in ConcLists :
       CallListObjectsFromKeys(t, KeyList(indexes), NoFault)
  \/ \E t \in Threads : StepListObjectsFromKeys(t)
  \/ \E t \in Threads : CallListCloudEvents(t, MaxLimit, ConcOptions, "none", NoFault)
  \/ \E t \in Threads : StepListCloudEvents(t)
  \/ \E t \in Threads : CallGetLatestCloudEvent(t, ConcOptions, "none", NoFault)
  \/ \E t \in Threads : StepGetLatestCloudEvent(t)
  \/ Return

SpecConc == Init /\ [][NextConc]_vars

----------------------------------------------------------------------------
(* Properties.                                                              *)

\* C1: within one call of ListCloudEventsFromIndexes, GetObject is invoked at
\* most once per distinct object key of the list, only for keys of the list,
\* and when the call succeeds exactly once for each distinct key, whatever the
\* number and the order of the rows.
C1_FetchOncePerKey ==
  op = "ListCloudEventsFromIndexes" =>
    /\ \A i \in 1..Len(calls) :
         calls[i].fn = "GetObject" /\ calls[i].key \in KeysOf(arg.indexes)
    /\ \A i, j \in 1..Len(calls) : i # j => calls[i].key # calls[j].key
    /\ ret.err = <<>> =>
         /\ Len(calls) = Cardinality(KeysOf(arg.indexes))
         /\ Len(ret.events) = Len(arg.indexes)

\* C1 witness: three rows over two keys, the first key repeated after the
\* second, resolved with two fetches.
C1_Witness ==
  /\ op = "ListCloudEventsFromIndexes"
  /\ Len(arg.indexes) = 3
  /\ arg.indexes[1].key = arg.indexes[3].key
  /\ arg.indexes[1].key # arg.indexes[2].key
  /\ ret.err = <<>>
  /\ Len(ret.events) = 3
  /\ Len(calls) = 2

\* A step in which a call of StoreObject returns.
StoreObjectStep == op = "" /\ op' = "StoreObject"

\* A step in which the call of StoreObject of thread t issues the request it
\* is at: PutObject (pc = ""), then Exec.
StoreObjectAt(t, pc) ==
  /\ threads[t] # <<>>
  /\ threads[t][1].op = "StoreObject"
  /\ threads[t][1].pc = pc
  /\ threads'[t] # threads[t]

\* The call of thread t returns in this step, with the calls c.
ReturnsWith(t, c) == threads'[t] = <<>> /\ op' = "StoreObject" /\ calls' = c

\* C2: in every execution of StoreObject, by one thread or by two at the same
\* time, the first request is PutObject at the derived object key, which
\* leaves the index table as it is, and the Exec of the insert is issued only
\* by a call whose PutObject has succeeded; when PutObject fails, StoreObject
\* returns an error at once, having issued no Exec and left both stores as
\* they were.
C2_PutBeforeInsert ==
  [][/\ \A t \in Threads :
          LET f == threads[t][1]
              key == CloudEventToObjectKey(f.arg.hdr)
          IN /\ StoreObjectAt(t, "") =>
                  /\ f.calls = <<>>
                  /\ index' = index
                  /\ f.arg.putOK =>
                       /\ objects' = PutObject(objects, key, f.arg.data)
                       /\ \/ ReturnsWith(t, <<Call("PutObject", key, TRUE)>>)
                          \/ /\ threads'[t] # <<>>
                             /\ threads'[t][1].pc = "Exec"
                             /\ threads'[t][1].calls = <<Call("PutObject", key, TRUE)>>
                  /\ ~f.arg.putOK =>
                       /\ ReturnsWith(t, <<Call("PutObject", key, FALSE)>>)
                       /\ ret'.err # <<>>
                       /\ objects' = objects
             /\ StoreObjectAt(t, "Exec") =>
                  /\ f.arg.putOK
                  /\ f.calls = <<Call("PutObject", key, TRUE)>>
                  /\ ReturnsWith(t, <<Call("PutObject", key, TRUE),
                                      Call("Exec", key, f.arg.execOK)>>)
     /\ StoreObjectStep =>
          /\ Len(calls') >= 1
          /\ calls'[1].fn = "PutObject"
          /\ calls'[1].key = CloudEventToObjectKey(arg'.hdr)
          /\ calls'[1].ok = arg'.putOK
          /\ \A i \in 1..Len(calls') : calls'[i].fn = "Exec" => i > 1]_vars

\* C2 witness: StoreObject has failed on PutObject while the table holds a row.
C2_Witness ==
  /\ op = "StoreObject"
  /\ ~arg.putOK
  /\ ret.err # <<>>
  /\ calls = <<Call("PutObject", CloudEventToObjectKey(arg.hdr), FALSE)>>
  /\ Len(index) = 1

\* C3: StoreObject writes the blob at the derived key and leaves every other
\* object as it is; when the insert then fails, StoreObject returns an error,
\* the failing step leaves the object store, the blob at the derived key
\* included, and the index table as they were, and the only calls of the
\* operation are the PutObject and the failed Exec.
C3_NoRollback ==
  [][\A t \in Threads :
       LET f == threads[t][1]
           key == CloudEventToObjectKey(f.arg.hdr)
       IN /\ (StoreObjectAt(t, "") /\ f.arg.putOK) =>
               /\ key \in DOMAIN objects' /\ objects'[key] = f.arg.data
               /\ \A k \in DOMAIN objects :
                    k \in DOMAIN objects' /\ (k # key => objects'[k] = objects[k])
          /\ (StoreObjectAt(t, "Exec") /\ ~f.arg.execOK) =>
               /\ ret'.err # <<>>
               /\ key \in DOMAIN objects
               /\ objects' = objects
               /\ index' = index
               /\ ReturnsWith(t, <<Call("PutObject", key, TRUE), Call("Exec", key, FALSE)>>)]_vars

\* C3 witness: after a failed insert the blob is in the object store and no
\* row of the table refers to it.
C3_Witness ==
  /\ op = "StoreObject"
  /\ arg.putOK /\ ~arg.execOK
  /\ ret.err # <<>>
  /\ CloudEventToObjectKey(arg.hdr) \in DOMAIN objects
  /\ objects[CloudEventToObjectKey(arg.hdr)] = arg.data
  /\ \A i \in 1..Len(index) : index[i].index_key # CloudEventToObjectKey(arg.hdr)

\* GetCloudEventFromIndex has returned an event.
Resolved == op = "GetCloudEventFromIndex" /\ ret.err = <<>>

\* The blob GetCloudEventFromIndex fetched, and that blob parsed as a wire envelope.
FetchedBlob == objects[arg.indexes[1].key]
ParsedBlob == unmarshalCloudEvent(FetchedBlob, TRUE)

\* The header is the zero header, the spec version the parser forces apart.
AllZero(hdr) == [hdr EXCEPT !.SpecVersion = ""] = emptyHdr

\* One of the identity fields of the header is set: the subject, the type, the
\* source, the id, or a time of at least one second.
HasIdentity(hdr) ==
  \/ hdr.Subject # "" \/ hdr.Type # "" \/ hdr.Source # "" \/ hdr.ID # ""
  \/ hdr.Time \div 1000000 # 0

\* C4 as stated: the payload is the embedded data field when the blob parses
\* as a wire envelope and the parsed header is not the all-zero header, and
\* the raw blob in every other case.
C4_UnwrapUnlessAllZero ==
  Resolved =>
    ret.event.data = IF ParsedBlob.err = <<>> /\ ~AllZero(ParsedBlob.hdr)
                     THEN ParsedBlob.data ELSE FetchedBlob

\* C4 amended: the payload is the embedded data field when the blob parses as
\* a wire envelope and the parsed header has one of the identity fields
\* (subject, type, source, id, time of a second or more) set, and the raw blob
\* in every other case: on a parse failure, and on a parsed header whose
\* identity fields are all zero, whatever its other fields and extras hold.
C4_UnwrapRule ==
  Resolved =>
    ret.event.data = IF ParsedBlob.err = <<>> /\ HasIdentity(ParsedBlob.hdr)
                     THEN ParsedBlob.data ELSE FetchedBlob

\* C4 witness: a blob that is an envelope with a subject and a data field has
\* been resolved to its data field.
C4_Witness ==
  /\ Resolved
  /\ ParsedBlob.err = <<>>
  /\ ParsedBlob.hdr.Subject = "sa"
  /\ ParsedBlob.data = Text(JStr("d"))
  /\ ret.event.data = Text(JStr("d"))
  /\ ret.event.data # FetchedBlob

\* C5: an event returned by GetCloudEventFromIndex has the header of the index
\* row given, and the i-th event returned by ListCloudEventsFromIndexes has
\* the header of the i-th index row given, whatever the blob holds and whether
\* it was fetched or taken from the cache.
C5_IndexHeaderWins ==
  /\ Resolved => ret.event.hdr = arg.indexes[1].hdr
  /\ (op = "ListCloudEventsFromIndexes" /\ ret.err = <<>>) =>
       /\ Len(ret.events) = Len(arg.indexes)
       /\ \A i \in 1..Len(arg.indexes) : ret.events[i].hdr = arg.indexes[i].hdr

\* C5 witness: two rows with different headers share a key whose blob is an
\* envelope with a third header; one fetch served both, and each event has its
\* row's header.
C5_Witness ==
  /\ op = "ListCloudEventsFromIndexes"
  /\ ret.err = <<>>
  /\ Len(arg.indexes) = 2
  /\ arg.indexes[1].key = arg.indexes[2].key
  /\ arg.indexes[1].hdr # arg.indexes[2].hdr
  /\ Len(calls) = 1
  /\ LET parsed == unmarshalCloudEvent(objects[arg.indexes[1].key], TRUE)
     IN /\ parsed.err = <<>>
        /\ HasIdentity(parsed.hdr)
        /\ \A i \in 1..2 : ~Equals(parsed.hdr, arg.indexes[i].hdr)
  /\ \A i \in 1..2 : ret.events[i].hdr = arg.indexes[i].hdr
  /\ ret.events[2].data = Text(JStr("d"))

\* The *SearchOptions given sets this option (a nil pointer sets none).
Given(f) == arg.opts # Nil /\ arg.opts[1][f] # NoOptions[f]

\* The row meets every equality predicate of the *SearchOptions given: on each
\* of ID, Type, DataVersion, Subject, Source, Producer, Extras that is set.
MatchesExactly(row) ==
  /\ Given("ID") => row.id = arg.opts[1].ID[1]
  /\ Given("Type") => row.event_type = arg.opts[1].Type[1]
  /\ Given("DataVersion") => row.data_version = arg.opts[1].DataVersion[1]
  /\ Given("Subject") => row.subject = arg.opts[1].Subject[1]
  /\ Given("Source") => row.source = arg.opts[1].Source[1]
  /\ Given("Producer") => row.producer = arg.opts[1].Producer[1]
  /\ Given("Extras") => row.extras = arg.opts[1].Extras[1]

\* The row meets every predicate of the *SearchOptions given: the equality
\* predicates, a time strictly after After and strictly before Before when
\* these are set.
Matches(row) ==
  /\ MatchesExactly(row)
  /\ Given("After") => row.event_time > arg.opts[1].After
  /\ Given("Before") => row.event_time < arg.opts[1].Before

\* The rows of the table that meet the predicates given.
Matching == {i \in 1..Len(index) : Matches(index[i])}

\* The rows the query yields when nothing fails and the limit allows: those
\* that meet the predicates given, with After and Before at the whole seconds
\* the statement carries.
Yielded ==
  {i \in 1..Len(index) :
     /\ MatchesExactly(index[i])
     /\ Given("After") => index[i].event_time > toDateTime(arg.opts[1].After)
     /\ Given("Before") => index[i].event_time < toDateTime(arg.opts[1].Before)}

\* A collaborator of the index store failed during the operation: the query,
\* the scan of a row (there must be one), or the iteration.
DbFailed ==
  \/ arg.dbFault \in {"query", "iter"}
  \/ arg.dbFault = "scan" /\ Yielded # {}

\* C6: ListIndexes returns an error wrapping sql.ErrNoRows exactly when nothing
\* failed and no row matches; when the query, a scan or the iteration fails it
\* returns an error that does not wrap sql.ErrNoRows; it never returns an
\* empty list with a nil error.
C6_NotFoundIffNoRows ==
  op = "ListIndexes" =>
    /\ Is(ret.err, ErrNoRows) <=> (~DbFailed /\ Yielded = {})
    /\ DbFailed => ret.err # <<>> /\ ~Is(ret.err, ErrNoRows)
    /\ ~(ret.err = <<>> /\ ret.indexes = <<>>)

\* C6 witness: on a table that holds rows, none matching, ListIndexes has
\* returned the not-found error and no list.
C6_Witness ==
  /\ op = "ListIndexes"
  /\ arg.dbFault = "none"
  /\ Len(index) = 2
  /\ Yielded = {}
  /\ Is(ret.err, ErrNoRows)
  /\ ret.indexes = <<>>

\* C7: GetLatestIndex, given options and no failure, returns the index of a
\* matching row no matching row is later than, whatever TimestampAsc says, and
\* when no row matches the error ListIndexes returns for no rows.
C7_LatestIgnoresAsc ==
  (op = "GetLatestIndex" /\ arg.opts # Nil /\ arg.dbFault = "none") =>
    /\ Matching # {} =>
         /\ ret.err = <<>>
         /\ \E i \in Matching :
              /\ ret.index.key = index[i].index_key
              /\ ret.index.hdr.Time = index[i].event_time
              /\ ret.index.hdr.Subject = index[i].subject
              /\ \A j \in Matching : index[j].event_time <= index[i].event_time
    /\ Matching = {} =>
         /\ Is(ret.err, ErrNoRows)
         /\ \A r \in ListIndexes(index, 1, arg.opts, "none") : r.err = ret.err

\* The rows ListIndexes returned, as the set of their object keys.
ReturnedKeys == {ret.indexes[i].key : i \in 1..Len(ret.indexes)}

\* C8: ListIndexes, when nothing fails, returns only rows that meet every
\* predicate given, with strict time bounds; it returns all of them when the
\* limit allows, and the not-found error when there is none.
C8_ConjunctiveStrict ==
  (op = "ListIndexes" /\ arg.dbFault = "none") =>
    /\ ReturnedKeys \subseteq {index[i].index_key : i \in Matching}
    /\ Len(ret.indexes) = Min(arg.limit, Cardinality(Matching))
    /\ Matching = {} <=> ret.err # <<>>

\* No predicate is given: the *SearchOptions is nil or sets none.
Unfiltered == \A f \in DOMAIN NoOptions \ {"TimestampAsc"} : ~Given(f)

\* C9: a nil *SearchOptions and one with no predicate set both yield no query
\* condition, and ListIndexes and ListCloudEvents given either return, when
\* nothing fails, every row of the table up to the limit.
C9_NoFilterMatchesAll ==
  /\ Unfiltered => QueryMods(arg.opts) = <<>>
  /\ (op = "ListIndexes" /\ Unfiltered /\ arg.dbFault = "none" /\ index # <<>>) =>
       /\ ret.err = <<>>
       /\ Len(ret.indexes) = Min(arg.limit, Len(index))
       /\ Cardinality(ReturnedKeys) = Len(ret.indexes)
       /\ ReturnedKeys \subseteq {index[i].index_key : i \in 1..Len(index)}
  /\ (op = "ListCloudEvents" /\ Unfiltered /\ arg.dbFault = "none"
        /\ arg.fault = NoFault /\ index # <<>>) =>
       /\ ret.err = <<>>
       /\ Len(ret.events) = Min(arg.limit, Len(index))
       /\ Cardinality({ret.events[i].data : i \in 1..Len(ret.events)}) = Len(ret.events)
       /\ \A i \in 1..Len(ret.events) : \E j \in 1..Len(index) :
            ret.events[i].data = objects[index[j].index_key]

\* C9 witness: ListCloudEvents given a nil *SearchOptions has returned both
\* rows of a table of two.
C9_Witness ==
  /\ op = "ListCloudEvents"
  /\ arg.opts = Nil
  /\ arg.limit = 2
  /\ Len(index) = 2
  /\ ret.err = <<>>
  /\ Len(ret.events) = 2
  /\ ret.events[1].data # ret.events[2].data

\* The event times are in the order asked for: ascending when TimestampAsc is
\* set, descending when it is not or the *SearchOptions is nil.
InOrder(times) ==
  \A a, b \in 1..Len(times) : a < b =>
    IF arg.opts # Nil /\ arg.opts[1].TimestampAsc
    THEN times[a] <= times[b] ELSE times[a] >= times[b]

\* C10: ListIndexes returns at most limit rows in the order asked for, and no
\* matching row left out comes before a returned one in that order;
\* ListCloudEvents returns the events of such a list in the same order.
C10_LimitAndOrder ==
  /\ (op = "ListIndexes" /\ ret.err = <<>>) =>
       /\ Len(ret.indexes) <= arg.limit
       /\ InOrder([i \in 1..Len(ret.indexes) |-> ret.indexes[i].hdr.Time])
       /\ \A j \in Matching : index[j].index_key \notin ReturnedKeys =>
            /\ Len(ret.indexes) = arg.limit
            /\ \A i \in 1..Len(ret.indexes) :
                 InOrder(<<ret.indexes[i].hdr.Time, index[j].event_time>>)
  /\ (op = "ListCloudEvents" /\ ret.err = <<>>) =>
       /\ Len(ret.events) <= arg.limit
       /\ InOrder([i \in 1..Len(ret.events) |-> ret.events[i].hdr.Time])
       /\ \E r \in ListIndexes(index, arg.limit, arg.opts, "none") :
            /\ Len(r.indexes) = Len(ret.events)
            /\ \A i \in 1..Len(ret.events) : ret.events[i].hdr = r.indexes[i].hdr

----------------------------------------------------------------------------
(* C11: rows with one identity.                                             *)

\* The rows of the table whose sorting key is that of row i.
SameIdentity(i) == {j \in 1..Len(index) : OrderByKey(index[j]) = OrderByKey(index[i])}

\* The row inserted last among the rows with the identity of row i.
LaterRow(i) == CHOOSE j \in SameIdentity(i) : \A k \in SameIdentity(i) : k <= j

\* Row i was inserted before another row with its identity and other extras.
Rewritten(i) == index[LaterRow(i)].extras # index[i].extras

\* The positions of the result of ListIndexes that hold a row with the identity of row i.
ReturnedOf(i) ==
  {n \in 1..Len(ret.indexes) :
     LET h == ret.indexes[n].hdr
     IN <<h.Subject, h.Time, h.Type, h.Source, h.ID>> = OrderByKey(index[i])}

\* C11: once two rows with the same Subject, Time, Type, Source and ID and
\* different Extras were inserted one after the other, a successful query that
\* selects this identity (the table holds no other) returns the row inserted
\* later, and only that row.
C11_LaterRowSupersedes ==
  (op = "ListIndexes" /\ ret.err = <<>>) =>
    \A i \in 1..Len(index) :
      (Rewritten(i) /\ SameIdentity(i) = 1..Len(index)) =>
        /\ Cardinality(ReturnedOf(i)) = 1
        /\ \A n \in ReturnedOf(i) : ret.indexes[n] = ScanRow(index[LaterRow(i)]).index

----------------------------------------------------------------------------
(* C12, C13: the object key.                                                *)

LowerHex == {"0", "1", "2", "3", "4", "5", "6", "7", "8", "9", "a", "b", "c", "d", "e", "f"}

\* C12: CloudEventToObjectKey returns the empty string for a nil header; for a
\* header it returns one lowercase hex character, which is the highest four
\* bits of the 64-bit hash of Key(), followed by Key() unchanged, so that the
\* result is one character longer than Key().
C12_HexPrefixThenKey ==
  op = "CloudEventToObjectKey" =>
    IF arg.hdr = Nil THEN ret.key = ""
    ELSE LET key == Key(arg.hdr[1])
         IN /\ Len(ret.key) = Len(key) + 1
            /\ \E d \in 0..15 :
                 /\ hexChars[d + 1] \in LowerHex
                 /\ key \in Sum64StringTop4[d + 1]
                 /\ ret.key = hexChars[d + 1] \o key

C12_Witness ==
  /\ op = "CloudEventToObjectKey"
  /\ arg.hdr # Nil /\ arg.hdr[1].Subject = "sa" /\ arg.hdr[1].ID = "i"
  /\ ret.key # "" /\ ret.key # Key(arg.hdr[1])

\* Two headers differ in Subject, Time at millisecond precision, Type, Source or ID.
Differ(h1, h2) ==
  \/ h1.Subject # h2.Subject
  \/ DateTime64(h1.Time) # DateTime64(h2.Time)
  \/ h1.Type # h2.Type
  \/ h1.Source # h2.Source
  \/ h1.ID # h2.ID

\* C13: the object key of a header differs from the object key of every header
\* that differs from it in Subject, Time (at millisecond precision), Type,
\* Source or ID.
C13_KeyInjective ==
  (op = "CloudEventToObjectKey" /\ arg.hdr # Nil) =>
    \A h2 \in KeyHeaders :
      Differ(arg.hdr[1], h2) => CloudEventToObjectKey(Ptr(h2)) # ret.key

----------------------------------------------------------------------------
(* C14: the key of a stored header.                                         *)

\* The object key of the header that row i of the table was inserted for.
KeyOfRow(i) == CloudEventToObjectKey(Ptr(ScanRow(index[i]).index.hdr))

\* StoreObject has just succeeded.
Stored == op = "StoreObject" /\ ret = NoRet

\* The row StoreObject has just inserted carries the object key of the header,
\* which is the key the payload was put under.
StoredUnderKey ==
  Stored =>
    LET key == CloudEventToObjectKey(arg.hdr)
    IN /\ index[Len(index)].index_key = key
       /\ calls[1] = Call("PutObject", key, TRUE)
       /\ key \in DOMAIN objects /\ objects[key] = arg.data

\* C14 as stated: the row inserted by a successful StoreObject carries the
\* object key of the header, the key the payload was written under, and a
\* later GetLatestIndex filtered on the Subject and DataVersion of the header
\* stored last returns the object key of that header.
C14_LatestIsStoredKey ==
  /\ StoredUnderKey
  /\ (op = "GetLatestIndex" /\ ret.err = <<>> /\ Len(index) \in Matching) =>
       ret.index.key = KeyOfRow(Len(index))

\* C14, amended: the row inserted by a successful StoreObject carries the object
\* key of the header, the key the payload was written under, and GetLatestIndex
\* filtered on a Subject and DataVersion returns the object key of the stored
\* header that matches the filter and whose time is later than that of every
\* other matching row.
C14_LatestMatchingIsStoredKey ==
  /\ StoredUnderKey
  /\ (op = "GetLatestIndex" /\ ret.err = <<>>) =>
       \A i \in Matching :
         (\A j \in Matching \ {i} : index[j].event_time < index[i].event_time) =>
           /\ ret.index.key = KeyOfRow(i)
           /\ ret.index.key = index[i].index_key

\* C14 witness: GetLatestIndex has returned the key of the header stored
\* first, while the header stored after it, of another subject, is the latest
\* of the table.
C14_Witness ==
  /\ op = "GetLatestIndex" /\ ret.err = <<>>
  /\ Len(index) = 2
  /\ Matching = {1}
  /\ index[2].event_time > index[1].event_time
  /\ ret.index.key = KeyOfRow(1)
  /\ ret.index.key \in DOMAIN objects

----------------------------------------------------------------------------
(* C15 - C19: the fields that have no column.                               *)

\* The keys under which SpecVersion, DataSchema, Signature and Tags travel in Extras.
Reserved == {"specversion", "dataschema", "signature", "tags"}

\* The caller put none of the reserved keys into the Extras of header h.
ReservedFree(h) == DOMAIN h.Extras.kv \cap Reserved = {}

\* The members of the Extras JSON of a row (none when it is null).
ExtrasOf(row) == IF row.extras.val.j = "obj" THEN row.extras.val.o ELSE <<>>

\* The reserved keys of the fields of header h that are not zero.
NonZeroReserved(h) ==
  (IF h.SpecVersion # "" THEN {"specversion"} ELSE {})
    \cup (IF h.DataSchema # "" THEN {"dataschema"} ELSE {})
    \cup (IF h.Signature # "" THEN {"signature"} ELSE {})
    \cup (IF Len(h.Tags) > 0 THEN {"tags"} ELSE {})

\* C15: CloudEventToSlice and AddNonColumnFieldsToExtras leave the caller's
\* header as it was, Extras included, and the reserved keys of the fields that
\* are not zero are in the working copy: in the Extras JSON of the row
\* CloudEventToSlice returns, which holds besides them the caller's entries
\* alone, and in the map AddNonColumnFieldsToExtras returns, which differs
\* from the caller's Extras in reserved keys only.
C15_ReservedKeysInWorkingCopyOnly ==
  /\ op = "CloudEventToSlice" =>
       LET h == arg.hdr[1]
           o == ExtrasOf(ret.row)
       IN /\ ret.hdr = h
          /\ NonZeroReserved(h) \subseteq DOMAIN o
          /\ DOMAIN o \ DOMAIN h.Extras.kv \subseteq NonZeroReserved(h)
          /\ \A k \in DOMAIN h.Extras.kv \ NonZeroReserved(h) :
               k \in DOMAIN o /\ o[k] = MarshalAny(h.Extras.kv[k])
  /\ op = "AddNonColumnFieldsToExtras" =>
       LET before == arg.hdr[1].Extras.kv
           copy == ret.extras.kv
       IN /\ ret.hdr = arg.hdr[1]
          /\ NonZeroReserved(arg.hdr[1]) \subseteq DOMAIN copy
          /\ DOMAIN before \subseteq DOMAIN copy
          /\ DOMAIN copy \ DOMAIN before \subseteq Reserved
          /\ \A k \in DOMAIN before \ Reserved : copy[k] = before[k]

\* C16: the Extras JSON of the row CloudEventToSlice returns holds specversion,
\* dataschema, signature and tags with the value of the header field exactly
\* when that field is not zero, and besides them the caller's Extras alone
\* (the caller's Extras hold no reserved key).
C16_ReservedKeyIffNonZero ==
  (op = "CloudEventToSlice" /\ ReservedFree(arg.hdr[1])) =>
    LET h == arg.hdr[1]
        o == ExtrasOf(ret.row)
    IN /\ "specversion" \in DOMAIN o <=> h.SpecVersion # ""
       /\ "specversion" \in DOMAIN o => o["specversion"] = JStr(h.SpecVersion)
       /\ "dataschema" \in DOMAIN o <=> h.DataSchema # ""
       /\ "dataschema" \in DOMAIN o => o["dataschema"] = JStr(h.DataSchema)
       /\ "signature" \in DOMAIN o <=> h.Signature # ""
       /\ "signature" \in DOMAIN o => o["signature"] = JStr(h.Signature)
       /\ "tags" \in DOMAIN o <=> Len(h.Tags) > 0
       /\ "tags" \in DOMAIN o => o["tags"] = JArr([i \in 1..Len(h.Tags) |-> JStr(h.Tags[i])])
       /\ DOMAIN o \ Reserved = DOMAIN h.Extras.kv
       /\ \A k \in DOMAIN h.Extras.kv : o[k] = MarshalAny(h.Extras.kv[k])

\* A JSON value is a string / an array of strings.
IsJStr(v) == v.j = "str"
IsJStrings(v) == v.j = "arr" /\ \A i \in 1..Len(v.a) : v.a[i].j = "str"

\* C17: the header ListIndexes returns for a row holds none of specversion,
\* dataschema and tags in its Extras; its SpecVersion and DataSchema are the
\* strings the Extras JSON of the row holds under these keys and its Tags the
\* array of strings it holds under tags, and they are zero when the key is
\* absent or holds a value of another type; every other member of the Extras
\* JSON is in the Extras of the header, decoded; a row with null Extras JSON
\* yields nil Extras and zero fields.
C17_RestoreReserved ==
  (op = "ListIndexes" /\ ret.err = <<>>) =>
    LET o == ExtrasOf(index[1])
        hdr == ret.indexes[1].hdr
        has(k) == k \in DOMAIN o
    IN /\ DOMAIN hdr.Extras.kv = DOMAIN o \ {"specversion", "dataschema", "tags"}
       /\ \A k \in DOMAIN hdr.Extras.kv : hdr.Extras.kv[k] = UnmarshalAny(o[k])
       /\ hdr.SpecVersion =
            IF has("specversion") /\ IsJStr(o["specversion"]) THEN o["specversion"].s ELSE ""
       /\ hdr.DataSchema =
            IF has("dataschema") /\ IsJStr(o["dataschema"]) THEN o["dataschema"].s ELSE ""
       /\ hdr.Tags =
            IF has("tags") /\ IsJStrings(o["tags"])
            THEN [i \in 1..Len(o["tags"].a) |-> o["tags"].a[i].s] ELSE <<>>
       /\ index[1].extras = Text(JNull) =>
            hdr.Extras = NilMap /\ hdr.Signature = ""

\* C17 witness: ListIndexes has returned a header for a row whose Extras JSON
\* holds a string under specversion, a value of another type under dataschema
\* and under tags, and extra1.
C17_Witness ==
  /\ op = "ListIndexes" /\ ret.err = <<>>
  /\ DOMAIN ExtrasOf(index[1]) = {"specversion", "dataschema", "tags", "extra1"}
  /\ ExtrasOf(index[1])["dataschema"] = JArr(<<>>)
  /\ ExtrasOf(index[1])["tags"] = JStr("not-a-slice")
  /\ ret.indexes[1].hdr.SpecVersion = "0.3"
  /\ ret.indexes[1].hdr.DataSchema = ""
  /\ ret.indexes[1].hdr.Tags = <<>>
  /\ DOMAIN ret.indexes[1].hdr.Extras.kv = {"extra1"}

\* The header ListIndexes reads from the row StoreObject has just inserted.
ReadBack == ScanRow(index[Len(index)]).index.hdr

\* Header h holds, in the field and under the key of Extras, the signature sig.
DualResident(h, sig) ==
  /\ h.Signature = sig
  /\ "signature" \in DOMAIN h.Extras.kv
  /\ h.Extras.kv["signature"] = GStr(sig)

\* C18: the header ListIndexes returns for a row whose Extras JSON holds a
\* string under signature has this string as its Signature and under signature
\* in its Extras; so has the header read back from the row of a header that was
\* stored with the signature in its Signature field, and of one that was
\* stored with the signature under Extras["signature"] and an empty field.
C18_SignatureDualResidency ==
  /\ (op = "ListIndexes" /\ ret.err = <<>>) =>
       LET o == ExtrasOf(index[1])
       IN ("signature" \in DOMAIN o /\ IsJStr(o["signature"])) =>
            DualResident(ret.indexes[1].hdr, o["signature"].s)
  /\ Stored =>
       LET h == arg.hdr[1]
       IN /\ (h.Signature # "" /\ "signature" \notin DOMAIN h.Extras.kv) =>
               DualResident(ReadBack, h.Signature)
          /\ (h.Signature = "" /\ "signature" \in DOMAIN h.Extras.kv
                /\ h.Extras.kv["signature"].g = "string") =>
               DualResident(ReadBack, h.Extras.kv["signature"].s)

\* C19: the header read back from the row of a stored header h (whose Extras
\* hold no reserved key) has the Subject, Time, Type, ID, Source, Producer,
\* DataContentType and DataVersion of h, its SpecVersion, DataSchema, Signature
\* and Tags, no reserved key in its Extras for those of them that are zero, and
\* the Extras entries of h unchanged.
C19_RowRoundTrip ==
  (Stored /\ ReservedFree(arg.hdr[1])) =>
    LET h == arg.hdr[1]
        back == ReadBack
    IN /\ \A f \in {"Subject", "Time", "Type", "ID", "Source", "Producer",
                    "DataContentType", "DataVersion"} : back[f] = h[f]
       /\ \A f \in {"SpecVersion", "DataSchema", "Signature", "Tags"} : back[f] = h[f]
       /\ h.SpecVersion = "" => "specversion" \notin DOMAIN back.Extras.kv
       /\ h.DataSchema = "" => "dataschema" \notin DOMAIN back.Extras.kv
       /\ h.Signature = "" => "signature" \notin DOMAIN back.Extras.kv
       /\ h.Tags = <<>> => "tags" \notin DOMAIN back.Extras.kv
       /\ DOMAIN back.Extras.kv \ Reserved = DOMAIN h.Extras.kv
       /\ \A k \in DOMAIN h.Extras.kv : back.Extras.kv[k] = h.Extras.kv[k]

----------------------------------------------------------------------------
(* C20: the wire round trip.                                                *)

\* No key of the Extras of h is the name of a named wire field or "data".
CollisionFree(h) ==
  DOMAIN h.Extras.kv \cap (definedCloudeEventHdrFields \cup {"data"}) = {}

\* C20: the header unmarshalled from the bytes a header h was marshalled to
\* (the Extras keys of h collide with no named wire field and not with "data")
\* has the named fields of h, with SpecVersion "1.0", and Extras with exactly
\* the keys and values of the Extras of h.
C20_WireRoundTrip ==
  (op = "UnmarshalJSON" /\ CollisionFree(arg.hdr[1])) =>
    LET h == arg.hdr[1]
        back == ret.hdr
    IN /\ ret.err = <<>>
       /\ \A f \in {"ID", "Source", "Producer", "Subject", "Time", "Type",
                    "DataContentType", "DataSchema", "DataVersion"} : back[f] = h[f]
       /\ back.SpecVersion = SpecVersion
       /\ DOMAIN back.Extras.kv = DOMAIN h.Extras.kv
       /\ \A k \in DOMAIN h.Extras.kv : back.Extras.kv[k] = h.Extras.kv[k]

----------------------------------------------------------------------------
(* C21, C22: what the wire decoding keeps.                                  *)

\* A wire document has just been unmarshalled without error.
Unmarshalled ==
  op \in {"CloudEventHeader.UnmarshalJSON", "CloudEvent.UnmarshalJSON"} /\ ret.err = <<>>

\* C21: after a successful unmarshal of a wire document the keys of Extras
\* are the top-level keys of the document that are neither the wire name of a
\* named field nor "data", each with its decoded value, and Extras is nil when
\* there is none; the header-only decode drops the data member and the decode
\* of an event keeps it as the payload.
C21_ExtrasAreTheUnnamedKeys ==
  Unmarshalled =>
    LET o == Members(arg.data)
        named == {"id", "source", "producer", "specversion", "subject", "time", "type",
                  "datacontenttype", "dataschema", "dataversion"}
        unnamed == DOMAIN o \ (named \cup {"data"})
    IN /\ DOMAIN ret.hdr.Extras.kv = unnamed
       /\ \A k \in unnamed : ret.hdr.Extras.kv[k] = UnmarshalAny(o[k])
       /\ unnamed = {} <=> ret.hdr.Extras = NilMap
       /\ op = "CloudEventHeader.UnmarshalJSON" => ret.data = NilBytes
       /\ op = "CloudEvent.UnmarshalJSON" =>
            ret.data = IF "data" \in DOMAIN o THEN Text(o["data"]) ELSE NilBytes

\* C21 witness: a document with id, data, extra1 and signature has been
\* unmarshalled into a header: Extras holds extra1 and signature.
C21_Witness ==
  /\ op = "CloudEventHeader.UnmarshalJSON" /\ ret.err = <<>>
  /\ DOMAIN Members(arg.data) = {"id", "data", "extra1", "signature"}
  /\ DOMAIN ret.hdr.Extras.kv = {"extra1", "signature"}
  /\ ret.hdr.ID = "i"

\* A header or an event has just been marshalled.
Marshalled == op \in {"MarshalJSON", "CloudEvent.MarshalJSON"} /\ ret.err = <<>>

\* C22 as stated: every document a header or an event is marshalled to has
\* the specversion "1.0", and every header a document is unmarshalled to has
\* the SpecVersion "1.0".
C22_SpecVersionForced ==
  /\ Marshalled => Members(ret.data)["specversion"] = JStr(SpecVersion)
  /\ Unmarshalled => ret.hdr.SpecVersion = SpecVersion

\* C22, amended: every document a header or an event whose Extras do not hold
\* the key specversion is marshalled to has the specversion "1.0", whatever
\* the SpecVersion of the header; every header a document is unmarshalled to
\* has the SpecVersion "1.0".
C22_SpecVersionForcedUnlessExtra ==
  /\ (Marshalled /\ "specversion" \notin DOMAIN arg.hdr[1].Extras.kv) =>
       Members(ret.data)["specversion"] = JStr(SpecVersion)
  /\ Unmarshalled => ret.hdr.SpecVersion = SpecVersion

\* C22 witness: a header with an empty SpecVersion has been marshalled to a
\* document with the specversion "1.0".
C22_Witness ==
  /\ op = "MarshalJSON"
  /\ arg.hdr[1].SpecVersion = ""
  /\ Members(ret.data)["specversion"] = JStr(SpecVersion)

----------------------------------------------------------------------------
(* C23, C24: the DID decoders.                                               *)

\* The string did is did:erc721:<chain>:<address>:<token> with the chain ID
\* and the token ID in decimal without sign or leading zero and the address
\* with 0x in EIP-55 case.
Canonical(did) ==
  /\ Len(did) = 9
  /\ <<did[1], did[2], did[3], did[4], did[6], did[8]>> =
       <<"did", ":", "erc721", ":", ":", ":">>
  /\ did[5] \in {"0", "1", "7", "137"}
  /\ did[7] \in {"0xbA5738a18d83D41847dfFbDC6101d37C69c9B0cF",
                 "0x1234567890123456789012345678901234567890",
                 "0x0000000000000000000000000000000000000000"}
  /\ did[9] \in {"0", "1", "5", "7", "123", "137"}

\* The string did is did:nft:<chain>:<address>_<token>.
Legacy(did) ==
  /\ Len(did) = 9
  /\ <<did[1], did[2], did[3], did[4], did[6], did[8]>> =
       <<"did", ":", "nft", ":", ":", "_">>

\* did:erc721:<chain>:<address>:<token> for the legacy string did
Modern(did) == [did EXCEPT ![3] = "erc721", ![8] = ":"]

\* C23: for every string DecodeERC721DID accepts, the String() of the decoded
\* DID is a canonical did:erc721 string, and the string itself when that is
\* canonical; a legacy did:nft string is decoded as DecodeLegacyNFTDID decodes
\* it, to the DID of the did:erc721 string with the same chain ID, address
\* and token ID; and decoding the String() again gives the same DID.
C23_DecodeStringCanonical ==
  (op = "DecodeERC721DID" /\ ret.err = <<>>) =>
    LET s == ERC721DIDString(ret.did)
    IN /\ Canonical(s)
       /\ Canonical(arg.data) => s = arg.data
       /\ Legacy(arg.data) =>
            /\ DIDRet(DecodeLegacyNFTDID(arg.data)) = ret
            /\ DIDRet(DecodeERC721DID(Modern(arg.data))) = ret
       /\ DIDRet(DecodeERC721DID(s)) = ret

\* C23 witness: the legacy string did:nft:137:<address>_123 has been decoded
\* to the DID that renders as did:erc721:137:<address>:123.
C23_Witness ==
  /\ op = "DecodeERC721DID" /\ ret.err = <<>>
  /\ Legacy(arg.data)
  /\ ERC721DIDString(ret.did) =
       <<"did", ":", "erc721", ":", "137", ":",
         "0xbA5738a18d83D41847dfFbDC6101d37C69c9B0cF", ":", "123">>

\* A DID decoder has just returned.
Decoded == op \in {"DecodeERC721DID", "DecodeLegacyNFTDID", "DecodeEthrDID", "DecodeERC20DID"}

\* C24: every failure of a DID decoder returns an error that wraps "invalid
\* DID" together with the zero value of the DID, and every ERC721 DID decoded
\* without error has a token ID that is neither nil nor negative.
C24_FailureIsInvalidDIDAndZero ==
  Decoded =>
    /\ ret.err # <<>> =>
         /\ Is(ret.err, "invalid DID")
         /\ ret.did.ChainID = 0
         /\ ret.did.ContractAddress = "0000000000000000000000000000000000000000"
         /\ op \in {"DecodeERC721DID", "DecodeLegacyNFTDID"} => ret.did.TokenID = <<>>
    /\ (ret.err = <<>> /\ op \in {"DecodeERC721DID", "DecodeLegacyNFTDID"}) =>
         (ret.did.TokenID # <<>> /\ ret.did.TokenID[1] >= 0)

\* C24 witness: DecodeERC721DID has refused the negative token ID of a legacy
\* string.
C24_Witness ==
  /\ op = "DecodeERC721DID"
  /\ Legacy(arg.data) /\ arg.data[9] = "-123"
  /\ ret.err = <<"token ID cannot be negative", "invalid DID">>
  /\ ret.did.TokenID = <<>>

----------------------------------------------------------------------------
(* C25, C30: fetching the blobs of a list.                                   *)

\* The number of rows or keys the operation was given.
Items == IF arg.indexes # <<>> THEN Len(arg.indexes) ELSE Len(arg.keys)

\* The n-th call of the operation met a key the store does not hold or was the
\* one planned to fail.
FetchFails(n) == calls[n].key \notin DOMAIN objects \/ arg.fault.at = n

\* C25: the operations that fetch blobs call GetObject and nothing else, at
\* most once for each row or key given (ListObjectsFromKeys for its keys in
\* order); a GetObject that fails is the last call of the operation, which
\* then returns an error and no events or objects, and an operation returns an
\* error only when its last GetObject failed.
C25_FailFastNoRetry ==
  op \in {"GetObjectFromKey", "ListObjectsFromKeys", "GetCloudEventFromIndex",
          "ListCloudEventsFromIndexes"} =>
    /\ Len(calls) <= Items
    /\ \A n \in 1..Len(calls) :
         /\ calls[n].fn = "GetObject"
         /\ FetchFails(n) =>
              /\ n = Len(calls)
              /\ ret.err # <<>> /\ ret.events = <<>> /\ ret.objs = <<>>
    /\ ret.err # <<>> => (calls # <<>> /\ FetchFails(Len(calls)))
    /\ op = "ListObjectsFromKeys" => \A n \in 1..Len(calls) : calls[n].key = arg.keys[n]

\* C25 witness: of three rows over two keys the first fetch failed, and the
\* operation returned an error after that one call.
C25_Witness ==
  /\ op = "ListCloudEventsFromIndexes"
  /\ Len(arg.indexes) = 3
  /\ arg.indexes[1].key # arg.indexes[2].key
  /\ arg.indexes[1].key \in DOMAIN objects
  /\ arg.fault.at = 1
  /\ Len(calls) = 1
  /\ ret.err # <<>> /\ ret.events = <<>>

\* C30: when every fetch succeeds, ListCloudEventsFromIndexes returns as many
\* events as it was given rows, the i-th being the event
\* GetCloudEventFromIndex returns for the i-th row on the same object store.
C30_ListIsMapOfGet ==
  (op = "ListCloudEventsFromIndexes" /\ ret.err = <<>>) =>
    /\ Len(ret.events) = Len(arg.indexes)
    /\ \A i \in 1..Len(arg.indexes) :
         LET got == GetCloudEventFromIndex(objects, arg.indexes[i], 1, NoFault)
         IN got.err = <<>> /\ ret.events[i] = got.event

\* C30 witness: of three rows the first and the third, of different subjects,
\* share the key of a blob that is an envelope; both events carry the data of
\* the envelope under their own header.
C30_Witness ==
  /\ op = "ListCloudEventsFromIndexes" /\ ret.err = <<>>
  /\ Len(arg.indexes) = 3
  /\ arg.indexes[1].key = arg.indexes[3].key
  /\ arg.indexes[1].key # arg.indexes[2].key
  /\ arg.indexes[1].hdr.Subject # arg.indexes[3].hdr.Subject
  /\ ret.events[3].hdr = arg.indexes[3].hdr
  /\ ret.events[3].data = ret.events[1].data
  /\ ret.events[3].data # objects[arg.indexes[3].key]

----------------------------------------------------------------------------
(* C26: calls of ListCloudEventsFromIndexes that run at the same time.       *)

\* The keys of the GetObject calls a call has issued.
Fetched(f) == {f.st.calls[n].key : n \in 1..Len(f.st.calls)}

\* The call with local variables f has fetched, itself and once each, the
\* keys of the rows it has passed, and its cache holds these keys only.
OwnFetches(f) ==
  /\ Fetched(f) = {f.indexes[i].key : i \in 1..(f.pos - 1)}
  /\ Len(f.st.calls) = Cardinality(Fetched(f))
  /\ DOMAIN f.st.objectsByKeys = Fetched(f)

\* The call with local variables f runs the loop of
\* ListCloudEventsFromIndexes.
InList(f) == f.op = "ListCloudEventsFromIndexes" \/ (f.op = "ListCloudEvents" /\ f.pc # "")

\* C26: whatever calls the threads run one after the other or interleaved,
\* every call that runs the loop of ListCloudEventsFromIndexes has fetched
\* each key of the rows it has passed itself and once, and has fetched every
\* key of its rows once when it returns without an error; a step of one
\* thread leaves the local variables of the other thread's call, its cache
\* among them, as they were; and no step changes the fields of the Service.
C26_CachePrivateToCall ==
  [][/\ \A t \in Threads :
          (threads'[t] # <<>> /\ InList(threads'[t][1])) => OwnFetches(threads'[t][1])
     /\ (op' = "ListCloudEventsFromIndexes" /\ ret'.err = <<>>) =>
          /\ {calls'[n].key : n \in 1..Len(calls')} = KeysOf(arg'.indexes)
          /\ Len(calls') = Cardinality(KeysOf(arg'.indexes))
     /\ \A t, u \in Threads :
          (t # u /\ threads'[t] # threads[t]) => threads'[u] = threads[u]
     /\ service' = [objGetter |-> "objGetter", chConn |-> "chConn"]]_vars

\* C26 witness: both threads are in the middle of a call on three rows over
\* two keys; one has fetched the key of its first row, the other the keys of
\* its first two rows, the key of the first thread among them.
C26_Witness ==
  /\ threads["t1"] # <<>> /\ threads["t2"] # <<>>
  /\ threads["t1"][1].op = "ListCloudEventsFromIndexes"
  /\ threads["t2"][1].op = "ListCloudEventsFromIndexes"
  /\ threads["t1"][1].pos = 2 /\ Len(threads["t1"][1].indexes) = 3
  /\ Fetched(threads["t1"][1]) = {threads["t1"][1].indexes[1].key}
  /\ threads["t2"][1].pos = 3 /\ Len(threads["t2"][1].indexes) = 3
  /\ Cardinality(Fetched(threads["t2"][1])) = 2
  /\ Fetched(threads["t1"][1]) \subseteq Fetched(threads["t2"][1])
  /\ Len(threads["t2"][1].st.events) = 2

----------------------------------------------------------------------------
(* C27: the latest-lookups without a filter set.                             *)

\* C27: GetLatestIndex and GetLatestCloudEvent, given nil options on stores
\* that do not fail, do not panic: on a table with rows they return a row no
\* row is later than, and on an empty table the not-found error.
C27_LatestAcceptsNil ==
  (op \in {"GetLatestIndex", "GetLatestCloudEvent"} /\ arg.opts = <<>>
     /\ arg.dbFault = "none" /\ arg.fault.at = 0) =>
    /\ ~ret.panic
    /\ index = <<>> => Is(ret.err, ErrNoRows)
    /\ index # <<>> =>
         /\ ret.err = <<>>
         /\ \E i \in 1..Len(index) :
              /\ (IF op = "GetLatestIndex" THEN ret.index.key ELSE
                    CloudEventToObjectKey(Ptr(ret.event.hdr))) = index[i].index_key
              /\ \A j \in 1..Len(index) : index[j].event_time <= index[i].event_time

----------------------------------------------------------------------------
(* C28, C29: blobs and the rows that refer to them.                          *)

\* The payload GetCloudEventFromIndex returns for a row of the table on the
\* object store.
PayloadOf(store, row) ==
  GetCloudEventFromIndex(store, ScanRow(row).index, 1, NoFault).event.data

\* The row was inserted for a header other than h: it differs from the row
\* of h in subject, event_time, event_type, source or id. (A row keeps the
\* whole seconds of the time of its header, so that headers whose times differ
\* within one second are not told apart here.)
OfAnotherEvent(row, h) ==
  OrderByKey(row) # OrderByKey(InsertRow(<<>>, CloudEventToSlice(Ptr(h)))[1])

\* C28: the PutObject of a StoreObject that succeeds leaves the payload of
\* every row alone that was inserted for a header that differs from the stored
\* header in Subject, Time, Type, Source or ID, and the row the call inserts
\* resolves to the payload it was given: no StoreObject overwrites the blob of
\* another event.
C28_NoOverwriteOfOtherEvent ==
  [][/\ \A t \in Threads :
          (StoreObjectAt(t, "") /\ threads[t][1].arg.putOK /\ threads[t][1].arg.execOK) =>
            \A i \in 1..Len(index) :
              OfAnotherEvent(index[i], threads[t][1].arg.hdr[1]) =>
                PayloadOf(objects', index[i]) = PayloadOf(objects, index[i])
     /\ (StoreObjectStep /\ ret' = NoRet) =>
          PayloadOf(objects', index'[Len(index')]) = arg'.data]_vars

\* C29: whatever StoreObject calls have run, with PutObject and the insert
\* failing or not, the object store holds a blob at the object key of every
\* row of the table.
C29_EveryRowHasBlob ==
  \A i \in 1..Len(index) : index[i].index_key \in DOMAIN objects

\* C29 witness: the table holds one row, with its blob, and the object store
\* holds a second blob that no row refers to, left by a StoreObject whose
\* insert failed.
C29_Witness ==
  /\ op = "StoreObject" /\ arg.putOK /\ ~arg.execOK
  /\ Len(index) = 1
  /\ index[1].index_key \in DOMAIN objects
  /\ \E k \in DOMAIN objects : k # index[1].index_key

====
